---- MODULE Spec2Model ----
(***************************************************************************)
(* Model of the koine-vocab reconciliation scripts:                        *)
(*   scripts/add_morphology.py   (normalizer, lexicon index, resolver)     *)
(*   scripts/merge_verses.py     (verse reconciler)                        *)
(*   scripts/fetch_greek_verses.py (verse tiering)                         *)
(*                                                                         *)
(* Text is modelled as a sequence of code points.  A code point is written *)
(* as an ASCII token: Greek letters by a Latin letter (a = alpha, A =      *)
(* capital alpha, s = sigma, j = final sigma, w = omega ...), the          *)
(* combining marks by "'" (U+0301 acute), ">" (U+0313 psili) and "<"       *)
(* (U+0314 dasia), and a precomposed letter by its base followed by its    *)
(* marks in one token ("a'" = U+03AC, "u<'" = U+1F55).                     *)
(***************************************************************************)
EXTENDS Integers, Sequences, FiniteSets, TLC

VARIABLES
    pc,                 \* position of the running script
    \* normalize_greek
    text,               \* the argument
    norm_key,           \* normalize_greek(text)
    norm_twice,         \* normalize_greek(normalize_greek(text))
    \* load_tbesg
    lines,              \* the lines of the lexicon file
    line_no,            \* the line the loop is at
    in_data,
    lexicon_by_strong,
    lexicon_by_greek,
    \* the resolution pass of add_morphology.main
    vocab,              \* vocab_data['words'] as loaded
    words,              \* vocab_data['words'], updated in place
    word_no,            \* the word the loop is at
    matched_by_strong,
    matched_by_greek,
    unmatched,
    found,              \* per word done: the value of entry and the branch that set it
    \* merge_verses.main
    existing_verses,    \* existing_data["verses"] as loaded
    books,              \* existing_data["books"]
    new_verses,         \* new_verses.json as loaded
    verse_no,           \* the verse the running loop is at
    normalized_existing,
    existing_keys,
    added,
    skipped,
    \* fetch_greek_verses.main
    verses,             \* the result of parse_keyed_features
    famous_no,          \* the entry of FAMOUS_VERSES the loop is at
    output_verses,
    missing,
    \* parse_keyed_features
    rows,               \* the lines of the csv text after the header
    row_no,             \* the line the loop is at
    \* fetch_translations.main
    loaded_verses,      \* data["verses"] as loaded
    live_verses,        \* the list verses, updated in place
    needs_update,       \* the indexes of the flagged verses
    update_no,          \* the flagged verse the loop is at
    updated,
    failed,
    fetch_log,          \* the verses the translation service was asked for
    response,           \* what the service answered last
    saved,              \* the verses written back, NotSaved before
    \* get_active_form
    active_arg,         \* the argument
    active_form,        \* the value returned
    active_rule,        \* the suffix of the test that returned it
    \* parse_morph
    morph_arg,          \* the argument
    morph_result        \* the value returned

normVars == <<text, norm_key, norm_twice>>

loadVars == <<lines, line_no, in_data>>

lexVars == <<lexicon_by_strong, lexicon_by_greek>>

resolveVars == <<vocab, words, word_no, matched_by_strong, matched_by_greek, unmatched, found>>

inputVars == <<existing_verses, books, new_verses>>

mergeVars == <<inputVars, verse_no, normalized_existing, existing_keys, added, skipped>>

fetchVars == <<verses, famous_no, output_verses, missing>>

parseVars == <<rows, row_no>>

translateVars == <<loaded_verses, live_verses, needs_update, update_no, updated, failed,
                   fetch_log, response, saved>>

activeVars == <<active_arg, active_form, active_rule>>

morphVars == <<morph_arg, morph_result>>

pureVars == <<activeVars, morphVars>>

vars == <<pc, normVars, loadVars, lexVars, resolveVars, mergeVars, fetchVars,
          parseVars, translateVars, pureVars>>

\* ---------------------------------------------------------------------
\* Bounds of the model
\* ---------------------------------------------------------------------
MaxTextLen == 4

MaxLines == 3

MaxLexEntries == 2

MaxWords == 2

MaxExisting == 2

MaxNew == 2

MaxFamous == 3

MaxVerseWords == 21

MaxStored == 2

\* ---------------------------------------------------------------------
\* Generic sequence helpers
\* ---------------------------------------------------------------------
RECURSIVE SeqsUpTo(_, _)
SeqsUpTo(S, n) ==
    IF n = 0 THEN {<<>>}
    ELSE LET shorter == SeqsUpTo(S, n - 1)
         IN  shorter \cup {Append(s, x) : s \in {t \in shorter : Len(t) = n - 1}, x \in S}

RECURSIVE IndexOf(_, _, _)
\* position of the first occurrence of c in s at or after position i, 0 if none
IndexOf(s, c, i) ==
    IF i > Len(s) THEN 0
    ELSE IF s[i] = c THEN i
    ELSE IndexOf(s, c, i + 1)

RECURSIVE FlatMap(_, _)
FlatMap(Op(_), s) ==
    IF s = <<>> THEN <<>> ELSE Op(Head(s)) \o FlatMap(Op, Tail(s))

\* the Python value None where a text is expected
None == <<"None">>

\* ---------------------------------------------------------------------
\* Unicode data for the code points of the model
\* ---------------------------------------------------------------------
\* unicodedata.category(c) == 'Mn'
IsMn(c) == c \in {"'", ">", "<"}

\* canonical decomposition (NFD) of one code point
Decomp(c) ==
    CASE c = "a'"  -> <<"a", "'">>
      [] c = "A'"  -> <<"A", "'">>
      [] c = "A>"  -> <<"A", ">">>
      [] c = "a>"  -> <<"a", ">">>
      [] c = "e'"  -> <<"e", "'">>
      [] c = "e>'" -> <<"e", ">", "'">>
      [] c = "i'"  -> <<"i", "'">>
      [] c = "o'"  -> <<"o", "'">>
      [] c = "u'"  -> <<"u", "'">>
      [] c = "u>"  -> <<"u", ">">>
      [] c = "u<'" -> <<"u", "<", "'">>
      [] OTHER     -> <<c>>

\* canonical combining class of the marks: all three are class 230, so NFD
\* keeps them in their written order
NFD(s) == FlatMap(Decomp, s)

\* a cased letter: anything that is a letter of the model
IsCased(c) == c \in {"a", "A", "a'", "A'", "a>", "A>", "b", "c", "d", "e", "e'",
                     "e>'", "f", "g", "i", "i'", "k", "l", "L", "m", "n", "o", "o'", "p",
                     "r", "s", "j", "S", "t", "u", "u'", "u>", "u<'", "w", "x", "z"}

\* str.lower(): code point by code point, except capital sigma, which becomes
\* a final sigma after a cased letter when no cased letter follows
LowerAt(s, i) ==
    CASE s[i] = "A"  -> "a"
      [] s[i] = "A'" -> "a'"
      [] s[i] = "A>" -> "a>"
      [] s[i] = "L"  -> "l"
      [] s[i] = "S"  -> IF /\ i > 1 /\ IsCased(s[i - 1])
                           /\ ~(i < Len(s) /\ IsCased(s[i + 1]))
                        THEN "j" ELSE "s"
      [] OTHER       -> s[i]

Lower(s) == [i \in 1..Len(s) |-> LowerAt(s, i)]

RECURSIVE StripParens(_)
\* re.sub(r'\([^)]+\)', '', text): a "(" whose next ")" is at least two
\* positions further starts a match that ends at that ")"
StripParens(s) ==
    IF s = <<>> THEN <<>>
    ELSE LET close == IndexOf(s, ")", 2)
         IN  IF Head(s) = "(" /\ close >= 3
             THEN StripParens(SubSeq(s, close + 1, Len(s)))
             ELSE <<Head(s)>> \o StripParens(Tail(s))

StripMn(s) == SelectSeq(s, LAMBDA c : ~IsMn(c))

\* a plausible slip: the marks are removed before the text is decomposed
normalize_greek_StripFirst(t) ==
    IF t = None \/ t = <<>> THEN <<>>
    ELSE Lower(NFD(StripMn(StripParens(t))))

normalize_greek(t) ==
    IF t = None \/ t = <<>> THEN <<>>
    ELSE Lower(StripMn(NFD(StripParens(t))))

\* ---------------------------------------------------------------------
\* add_morphology.py: morphology codes.  In identifier and morphology-code
\* fields the letter tokens are Latin letters.
\* ---------------------------------------------------------------------
\* a key that a dict does not have
NoKey == "<absent>"

\* the Python value None where a dict is expected
NoMorph == [none |-> TRUE]

NoEntry == [none |-> TRUE, entry |-> TRUE]

RECURSIVE Join(_)
\* the str made of the code points of s
Join(s) == IF s = <<>> THEN "" ELSE Head(s) \o Join(Tail(s))

RECURSIVE Split(_, _)
\* str.split(sep) for a one-character separator
Split(s, sep) ==
    LET at == IndexOf(s, sep, 1)
    IN  IF at = 0 THEN <<s>>
        ELSE <<SubSeq(s, 1, at - 1)>> \o Split(SubSeq(s, at + 1, Len(s)), sep)

\* str.upper() and str.lower() on the Latin letters of codes
UpperCode(s) ==
    [i \in 1..Len(s) |->
        CASE s[i] = "g" -> "G" [] s[i] = "n" -> "N" [] s[i] = "v" -> "V"
          [] s[i] = "m" -> "M" [] s[i] = "f" -> "F" [] s[i] = "p" -> "P"
          [] s[i] = "s" -> "S" [] s[i] = "l" -> "L" [] s[i] = "t" -> "T"
          [] s[i] = "i" -> "I" [] s[i] = "x" -> "X" [] s[i] = "a" -> "A"
          [] s[i] = "d" -> "D" [] s[i] = "c" -> "C"
          [] OTHER -> s[i]]

LowerCode(s) ==
    [i \in 1..Len(s) |->
        CASE s[i] = "G" -> "g" [] s[i] = "N" -> "n" [] s[i] = "V" -> "v"
          [] s[i] = "M" -> "m" [] s[i] = "F" -> "f" [] s[i] = "P" -> "p"
          [] s[i] = "S" -> "s" [] s[i] = "L" -> "l" [] s[i] = "T" -> "t"
          [] s[i] = "I" -> "i" [] s[i] = "X" -> "x" [] s[i] = "A" -> "a"
          [] s[i] = "D" -> "d" [] s[i] = "C" -> "c"
          [] OTHER -> s[i]]

MORPH_TYPE ==
    [c \in {"N", "V", "A", "ADV", "ART", "T", "COND", "CONJ", "COR", "D", "DEMP",
            "IMPP", "INTG", "INJ", "NEG", "P", "PART", "PRT", "PRT-N", "PREP",
            "PERP", "POSP", "REFP", "RELP", "A-NUI"} |->
        CASE c = "N" -> "noun"
          [] c = "V" -> "verb"
          [] c = "A" -> "adjective"
          [] c = "ADV" -> "adverb"
          [] c = "ART" -> "article"
          [] c = "T" -> "article"
          [] c = "COND" -> "conditional"
          [] c = "CONJ" -> "conjunction"
          [] c = "COR" -> "correlative"
          [] c = "D" -> "demonstrative"
          [] c = "DEMP" -> "demonstrative pronoun"
          [] c = "IMPP" -> "impersonal pronoun"
          [] c = "INTG" -> "interrogative"
          [] c = "INJ" -> "interjection"
          [] c = "NEG" -> "negative"
          [] c = "P" -> "pronoun"
          [] c = "PART" -> "particle"
          [] c = "PRT" -> "particle"
          [] c = "PRT-N" -> "negative particle"
          [] c = "PREP" -> "preposition"
          [] c = "PERP" -> "personal pronoun"
          [] c = "POSP" -> "possessive pronoun"
          [] c = "REFP" -> "reflexive pronoun"
          [] c = "RELP" -> "relative pronoun"
          [] c = "A-NUI" -> "numeral adjective"]

GENDER ==
    [c \in {"M", "F", "N", "C"} |->
        CASE c = "M" -> "masculine"
          [] c = "F" -> "feminine"
          [] c = "N" -> "neuter"
          [] c = "C" -> "common"]

Contains(s, c) == IndexOf(s, c, 1) /= 0

\* a plausible slip: the test for S comes after the test for P
parse_morph_SingularLast(morph_code) ==
    IF morph_code = <<>> \/ morph_code = <<"-">> THEN NoMorph
    ELSE LET parts == Split(morph_code, ":")
         IN  IF Len(parts) < 2 THEN NoMorph
             ELSE LET components  == Split(parts[2], "-")
                      type_code   == Join(UpperCode(components[1]))
                      gender_code == IF Len(components) > 1
                                     THEN UpperCode(components[2]) ELSE <<>>
                      extra       == IF Len(components) > 2
                                     THEN Join(UpperCode(components[3])) ELSE NoKey
                  IN  [language |-> Join(parts[1]),
                       type     |-> IF type_code \in DOMAIN MORPH_TYPE
                                    THEN MORPH_TYPE[type_code]
                                    ELSE Join(LowerCode(UpperCode(components[1]))),
                       gender   |-> IF gender_code /= <<>> /\ gender_code[1] \in DOMAIN GENDER
                                    THEN GENDER[gender_code[1]] ELSE NoKey,
                       number   |-> IF Contains(gender_code, "S") THEN "singular"
                                    ELSE IF Contains(gender_code, "P") THEN "plural"
                                    ELSE NoKey,
                       category |-> CASE extra = "P"  -> "person"
                                      [] extra = "L"  -> "location"
                                      [] extra = "T"  -> "title"
                                      [] extra = "LI" -> "indeclinable"
                                      [] OTHER        -> NoKey]

\* the dict parse_morph returns (a missing key holds NoKey), or NoMorph
parse_morph(morph_code) ==
    IF morph_code = <<>> \/ morph_code = <<"-">> THEN NoMorph
    ELSE LET parts == Split(morph_code, ":")
         IN  IF Len(parts) < 2 THEN NoMorph
             ELSE LET components  == Split(parts[2], "-")
                      type_code   == Join(UpperCode(components[1]))
                      gender_code == IF Len(components) > 1
                                     THEN UpperCode(components[2]) ELSE <<>>
                      extra       == IF Len(components) > 2
                                     THEN Join(UpperCode(components[3])) ELSE NoKey
                  IN  [language |-> Join(parts[1]),
                       type     |-> IF type_code \in DOMAIN MORPH_TYPE
                                    THEN MORPH_TYPE[type_code]
                                    ELSE Join(LowerCode(UpperCode(components[1]))),
                       gender   |-> IF gender_code /= <<>> /\ gender_code[1] \in DOMAIN GENDER
                                    THEN GENDER[gender_code[1]] ELSE NoKey,
                       number   |-> IF Contains(gender_code, "P") THEN "plural"
                                    ELSE IF Contains(gender_code, "S") THEN "singular"
                                    ELSE NoKey,
                       category |-> CASE extra = "P"  -> "person"
                                      [] extra = "L"  -> "location"
                                      [] extra = "T"  -> "title"
                                      [] extra = "LI" -> "indeclinable"
                                      [] OTHER        -> NoKey]

\* ---------------------------------------------------------------------
\* add_morphology.py: load_tbesg.  A lexicon line is the sequence of its
\* tab-separated fields; a field is a text.
\* ---------------------------------------------------------------------
IsDigit(c) == c \in {"0", "1", "2", "3", "4", "5", "6", "7", "8", "9"}

DigitValue(c) ==
    CASE c = "0" -> 0 [] c = "1" -> 1 [] c = "2" -> 2 [] c = "3" -> 3 [] c = "4" -> 4
      [] c = "5" -> 5 [] c = "6" -> 6 [] c = "7" -> 7 [] c = "8" -> 8 [] c = "9" -> 9

DigitChar(d) == <<"0", "1", "2", "3", "4", "5", "6", "7", "8", "9">>[d + 1]

RECURSIVE DigitsToInt(_)
\* int(digits)
DigitsToInt(ds) ==
    IF ds = <<>> THEN 0
    ELSE DigitsToInt(SubSeq(ds, 1, Len(ds) - 1)) * 10 + DigitValue(ds[Len(ds)])

RECURSIVE IntToDigits(_)
\* str(n) for n >= 0
IntToDigits(n) ==
    IF n < 10 THEN <<DigitChar(n)>>
    ELSE Append(IntToDigits(n \div 10), DigitChar(n % 10))

RECURSIVE DigitRun(_, _)
\* the longest run of digits of s that starts at position i
DigitRun(s, i) ==
    IF i <= Len(s) /\ IsDigit(s[i]) THEN <<s[i]>> \o DigitRun(s, i + 1) ELSE <<>>

RECURSIVE LStrip(_)
LStrip(s) == IF s /= <<>> /\ Head(s) = " " THEN LStrip(Tail(s)) ELSE s

RECURSIVE RStrip(_)
RStrip(s) ==
    IF s /= <<>> /\ s[Len(s)] = " " THEN RStrip(SubSeq(s, 1, Len(s) - 1)) ELSE s

\* str.strip() of a text without tabs
Strip(s) == RStrip(LStrip(s))

IsBlank(s) == \A i \in 1..Len(s) : s[i] = " "

RECURSIVE DropLeadingBlank(_)
DropLeadingBlank(fs) ==
    IF Len(fs) > 1 /\ IsBlank(fs[1]) THEN DropLeadingBlank(Tail(fs)) ELSE fs

RECURSIVE DropTrailingBlank(_)
DropTrailingBlank(fs) ==
    IF Len(fs) > 1 /\ IsBlank(fs[Len(fs)])
    THEN DropTrailingBlank(SubSeq(fs, 1, Len(fs) - 1)) ELSE fs

\* line.strip(): the tabs are white space too, so blank fields at either end
\* of the line go away with the tabs that delimit them
StripLine(fs) ==
    LET kept == DropTrailingBlank(DropLeadingBlank(fs))
        n    == Len(kept)
    IN  IF n = 1 THEN <<Strip(kept[1])>>
        ELSE <<LStrip(kept[1])>> \o SubSeq(kept, 2, n - 1) \o <<RStrip(kept[n])>>

eStrong == <<"e", "S", "t", "r", "o", "n", "g">>

\* re.match(r'^G\d+', estrong)
IsStrongsNumber(estrong) ==
    /\ Len(estrong) >= 2
    /\ estrong[1] = "G"
    /\ IsDigit(estrong[2])

\* a plausible slip: the leading zeros are kept
CanonicalId_KeepZeros(estrong) == <<"G">> \o DigitRun(estrong, 2)

\* normalized_strong: 'G' + str(int(base_strong[1:]))
CanonicalId(estrong) == <<"G">> \o IntToDigits(DigitsToInt(DigitRun(estrong, 2)))

MakeEntry(fields) ==
    [estrong         |-> Strip(fields[1]),
     strong          |-> CanonicalId(Strip(fields[1])),
     greek           |-> Strip(fields[4]),
     transliteration |-> Strip(fields[5]),
     morph_code      |-> Strip(fields[6]),
     morph           |-> parse_morph(Strip(fields[6])),
     gloss           |-> Strip(fields[7])]

\* a plausible slip: plain assignment, the later line overwrites
StoreByStrong_Overwrite(d, k, v) == (k :> v) @@ d

\* if normalized_strong not in lexicon_by_strong: lexicon_by_strong[...] = entry
StoreByStrong(d, k, v) == IF k \in DOMAIN d THEN d ELSE d @@ (k :> v)

\* if norm and norm not in lexicon_by_greek: lexicon_by_greek[norm] = entry
StoreByGreek(d, norm, v) ==
    IF norm /= <<>> /\ norm \notin DOMAIN d THEN d @@ (norm :> v) ELSE d

RECURSIVE IndexForms(_, _, _)
\* the loop over greek.split(',')
IndexForms(d, forms, entry) ==
    IF forms = <<>> THEN d
    ELSE LET greek_form == Strip(Head(forms))
             next == IF greek_form /= <<>>
                     THEN StoreByGreek(d, normalize_greek(greek_form), entry)
                     ELSE d
         IN  IndexForms(next, Tail(forms), entry)

\* the lines the loop body skips once the data section is reached
IsSkippedLine(line) ==
    \/ line = <<<<>>>>
    \/ (line[1] /= <<>> /\ line[1][1] \in {"$", "-"})
    \/ Len(line) < 7
    \/ ~IsStrongsNumber(Strip(line[1]))

IsHeader(line) == Len(line) >= 2 /\ line[1] = eStrong

\* one iteration of the loop of load_tbesg over the lines of the file
ProcessLine(st, raw) ==
    LET line == StripLine(raw)
    IN  IF IsHeader(line) THEN [st EXCEPT !.in_data = TRUE]
        ELSE IF ~st.in_data THEN st
        ELSE IF IsSkippedLine(line) THEN st
        ELSE LET entry == MakeEntry(line)
             IN  [in_data   |-> st.in_data,
                  by_strong |-> StoreByStrong(st.by_strong, entry.strong, entry),
                  by_greek  |-> IndexForms(st.by_greek, Split(entry.greek, ","), entry)]

EmptyLexicon == [in_data |-> FALSE, by_strong |-> <<>>, by_greek |-> <<>>]

RECURSIVE LoadFrom(_, _)
LoadFrom(st, ls) == IF ls = <<>> THEN st ELSE LoadFrom(ProcessLine(st, Head(ls)), Tail(ls))

\* load_tbesg(filepath) for a file with the lines ls
load_tbesg(ls) == LoadFrom(EmptyLexicon, ls)

\* ---------------------------------------------------------------------
\* Lexicon lines of the model (fields: eStrong, dStrong, uStrong, Greek,
\* Transliteration, Morph, Gloss)
\* ---------------------------------------------------------------------
LineHeader ==
    <<eStrong, <<"d", "S", "t", "r", "o", "n", "g">>>>

\* G0846 and G846: the same number, padded and not
LineAutos0 ==
    <<<<"G", "0", "8", "4", "6">>, <<"x">>, <<"x">>, <<"a", "u>", "t", "o'", "j">>,
      <<"a", "u">>, <<"G", ":", "P">>, <<"h", "e">>>>

LineAutos ==
    <<<<"G", "8", "4", "6">>, <<"x">>, <<"x">>, <<"a", "u>", "t", "o'", "j">>,
      <<"a", "u">>, <<"G", ":", "N", "-", "M">>, <<"s", "e", "l", "f">>>>

LineDeiknuo ==
    <<<<"G", "1", "1", "6", "6">>, <<"x">>, <<"x">>, <<"d", "e", "i", "k", "n", "u'", "w">>,
      <<"d", "e">>, <<"G", ":", "V">>, <<"s", "h", "o", "w">>>>

LineLogos ==
    <<<<"G", "3", "0", "5", "6">>, <<"x">>, <<"x">>, <<"l", "o'", "g", "o", "j">>,
      <<"l", "o">>, <<"G", ":", "N", "-", "M">>, <<"w", "o", "r", "d">>>>

\* two comma-separated forms, the second one the form of LineLogos
LinePhobeo ==
    <<<<"G", "5", "3", "9", "9">>, <<"x">>, <<"x">>,
      <<"f", "o", "b", "e'", "w", ",", " ", "l", "o'", "g", "o", "j">>,
      <<"f", "o">>, <<"G", ":", "V">>, <<"f", "e", "a", "r">>>>

\* a letter-suffixed id, a capitalised form and fields with spaces around
LineLogosA ==
    <<<<" ", "G", "3", "0", "5", "6", "a">>, <<"x">>, <<"x">>,
      <<"L", "o'", "g", "o", "j", " ">>, <<"l", "o">>,
      <<"n", ":", "n", "-", "m", "s", "-", "p">>, <<"W", "o", "r", "d">>>>

LineComment ==
    <<<<"$", " ", "n", "o", "t", "e">>, <<"x">>>>

LineHebrew ==
    <<<<"H", "0", "4", "3", "0">>, <<"x">>, <<"x">>, <<"l", "o'", "g", "o", "j">>,
      <<"e", "l">>, <<"H", ":", "N">>, <<"G", "o", "d">>>>

\* seven fields, the last one empty: six after line.strip()
LineNoGloss ==
    <<<<"G", "0", "0", "2", "5">>, <<"x">>, <<"x">>, <<"l", "o'", "g", "o", "j">>,
      <<"l", "o">>, <<"G", ":", "V">>, <<>>>>

LexLines == {LineHeader, LineAutos0, LineAutos, LineLogos, LinePhobeo, LineLogosA,
             LineComment, LineHebrew, LineNoGloss}

\* ---------------------------------------------------------------------
\* add_morphology.py: the resolution pass of main
\* ---------------------------------------------------------------------
\* a text key that a dict does not have
NoText == <<"<absent>">>

\* a word without a 'morphology' key
NoMorphology == [absent |-> TRUE]

EndsWith(s, suffix) ==
    /\ Len(s) >= Len(suffix)
    /\ SubSeq(s, Len(s) - Len(suffix) + 1, Len(s)) = suffix

DropLast(s, n) == SubSeq(s, 1, Len(s) - n)

\* get_active_form: the three tests in the order of the code; None is
\* returned for a form that matches none of them
get_active_form(middle_form) ==
    IF middle_form = <<>> THEN None
    ELSE IF EndsWith(middle_form, <<"o", "m", "a", "i">>)
         THEN DropLast(middle_form, 4) \o <<"w">>
    ELSE IF EndsWith(middle_form, <<"e", "o", "m", "a", "i">>)
         THEN DropLast(middle_form, 5) \o <<"e", "w">>
    ELSE IF EndsWith(middle_form, <<"m", "a", "i">>)
         THEN DropLast(middle_form, 3) \o <<"m", "i">>
    ELSE None

G3779 == <<"G", "3", "7", "7", "9">>

G622 == <<"G", "6", "2", "2">>

G2097 == <<"G", "2", "0", "9", "7">>

G1166 == <<"G", "1", "1", "6", "6">>

G3056 == <<"G", "3", "0", "5", "6">>

Houtos == <<"o", "u<'", "t", "w", "(", "j", ")">>

Apollumi == <<"a>", "p", "o'", "l", "l", "u", "m", "i">>

Euangelizo == <<"e", "u>", "a", "g", "g", "e", "l", "i'", "z", "w">>

Deiknumi == <<"d", "e", "i'", "k", "n", "u", "m", "i">>

MANUAL_STRONGS ==
    (Houtos :> G3779) @@ (Apollumi :> G622) @@ (Euangelizo :> G2097) @@ (Deiknumi :> G1166)

\* strongs = word.get('strongs', word.get('id', ''))
WordStrongs(word) ==
    IF word.strongs /= NoText THEN word.strongs
    ELSE IF word.id /= NoText THEN word.id
    ELSE <<>>

\* greek = word.get('greek', '')
WordGreek(word) == IF word.greek /= NoText THEN word.greek ELSE <<>>

\* the if / elif / else of main that sets entry: the entry found, the
\* branch that found it, and the identifier it stores on the word
FirstLookup(word, by_strong, by_greek) ==
    LET strongs    == WordStrongs(word)
        greek      == WordGreek(word)
        norm_greek == normalize_greek(greek)
    IN  IF greek \in DOMAIN MANUAL_STRONGS
        THEN IF MANUAL_STRONGS[greek] \in DOMAIN by_strong
             THEN [entry |-> by_strong[MANUAL_STRONGS[greek]], via |-> "manual",
                   strongs |-> MANUAL_STRONGS[greek]]
             ELSE [entry |-> NoEntry, via |-> "none", strongs |-> word.strongs]
        ELSE IF strongs \in DOMAIN by_strong
        THEN [entry |-> by_strong[strongs], via |-> "strong", strongs |-> word.strongs]
        ELSE IF norm_greek \in DOMAIN by_greek
        THEN [entry |-> by_greek[norm_greek], via |-> "greek",
              strongs |-> by_greek[norm_greek].strong]
        ELSE [entry |-> NoEntry, via |-> "none", strongs |-> word.strongs]

\* a plausible slip: the identifier is tried before the manual mapping
ResolveWord_IdFirst(word, by_strong, by_greek) ==
    LET strongs == WordStrongs(word)
    IN  IF strongs \in DOMAIN by_strong
        THEN [entry |-> by_strong[strongs], via |-> "strong", strongs |-> word.strongs]
        ELSE FirstLookup(word, by_strong, by_greek)

\* the body of the loop over vocab_data['words'] up to "if entry:"
ResolveWord(word, by_strong, by_greek) ==
    LET first  == FirstLookup(word, by_strong, by_greek)
        greek  == WordGreek(word)
        active == get_active_form(greek)
    IN  IF first.entry = NoEntry /\ greek \notin DOMAIN MANUAL_STRONGS
           /\ active /= None /\ normalize_greek(active) \in DOMAIN by_greek
        THEN [entry |-> by_greek[normalize_greek(active)], via |-> "active",
              strongs |-> by_greek[normalize_greek(active)].strong]
        ELSE first

\* the word after "if entry: if entry['morph']: word['morphology'] = ..."
UpdatedWord(word, r) ==
    [word EXCEPT !.strongs = r.strongs,
                 !.morphology = IF r.entry /= NoEntry /\ r.entry.morph /= NoMorph
                                THEN r.entry.morph ELSE @]

\* ---------------------------------------------------------------------
\* merge_verses.py.  Book ids and translations are texts of Latin letters.
\* ---------------------------------------------------------------------
LatinLower ==
    <<"a", "b", "c", "d", "e", "f", "g", "h", "i", "j", "k", "l", "m",
      "n", "o", "p", "q", "r", "s", "t", "u", "v", "w", "x", "y", "z">>

LatinUpper ==
    <<"A", "B", "C", "D", "E", "F", "G", "H", "I", "J", "K", "L", "M",
      "N", "O", "P", "Q", "R", "S", "T", "U", "V", "W", "X", "Y", "Z">>

\* c.islower() and the class [a-z]
IsLowerLatin(c) == \E i \in 1..Len(LatinLower) : LatinLower[i] = c

IsUpperLatin(c) == \E i \in 1..Len(LatinUpper) : LatinUpper[i] = c

\* c.upper()
ToUpperLatin(c) ==
    IF IsLowerLatin(c)
    THEN LatinUpper[CHOOSE i \in 1..Len(LatinLower) : LatinLower[i] = c] ELSE c

\* c.lower()
ToLowerLatin(c) ==
    IF IsUpperLatin(c)
    THEN LatinLower[CHOOSE i \in 1..Len(LatinUpper) : LatinUpper[i] = c] ELSE c

\* book_id.lower()
LowerLatin(s) == [i \in 1..Len(s) |-> ToLowerLatin(s[i])]

BOOK_ID_MAP ==
    (<<"m", "a", "t", "t", "h", "e", "w">> :> <<"m", "a", "t", "t">>) @@
    (<<"m", "a", "r", "k">> :> <<"m", "a", "r", "k">>) @@
    (<<"l", "u", "k", "e">> :> <<"l", "u", "k", "e">>) @@
    (<<"j", "o", "h", "n">> :> <<"j", "o", "h", "n">>) @@
    (<<"a", "c", "t", "s">> :> <<"a", "c", "t", "s">>) @@
    (<<"r", "o", "m", "a", "n", "s">> :> <<"r", "o", "m">>) @@
    (<<"1", "c", "o", "r", "i", "n", "t", "h", "i", "a", "n", "s">> :> <<"1", "c", "o", "r">>) @@
    (<<"2", "c", "o", "r", "i", "n", "t", "h", "i", "a", "n", "s">> :> <<"2", "c", "o", "r">>) @@
    (<<"g", "a", "l", "a", "t", "i", "a", "n", "s">> :> <<"g", "a", "l">>) @@
    (<<"e", "p", "h", "e", "s", "i", "a", "n", "s">> :> <<"e", "p", "h">>) @@
    (<<"p", "h", "i", "l", "i", "p", "p", "i", "a", "n", "s">> :> <<"p", "h", "i", "l">>) @@
    (<<"c", "o", "l", "o", "s", "s", "i", "a", "n", "s">> :> <<"c", "o", "l">>) @@
    (<<"1", "t", "h", "e", "s", "s", "a", "l", "o", "n", "i", "a", "n", "s">> :> <<"1", "t", "h", "e", "s", "s">>) @@
    (<<"2", "t", "h", "e", "s", "s", "a", "l", "o", "n", "i", "a", "n", "s">> :> <<"2", "t", "h", "e", "s", "s">>) @@
    (<<"1", "t", "i", "m", "o", "t", "h", "y">> :> <<"1", "t", "i", "m">>) @@
    (<<"2", "t", "i", "m", "o", "t", "h", "y">> :> <<"2", "t", "i", "m">>) @@
    (<<"t", "i", "t", "u", "s">> :> <<"t", "i", "t", "u", "s">>) @@
    (<<"p", "h", "i", "l", "e", "m", "o", "n">> :> <<"p", "h", "l", "m">>) @@
    (<<"h", "e", "b", "r", "e", "w", "s">> :> <<"h", "e", "b">>) @@
    (<<"j", "a", "m", "e", "s">> :> <<"j", "a", "s">>) @@
    (<<"1", "p", "e", "t", "e", "r">> :> <<"1", "p", "e", "t">>) @@
    (<<"2", "p", "e", "t", "e", "r">> :> <<"2", "p", "e", "t">>) @@
    (<<"1", "j", "o", "h", "n">> :> <<"1", "j", "o", "h", "n">>) @@
    (<<"2", "j", "o", "h", "n">> :> <<"2", "j", "o", "h", "n">>) @@
    (<<"3", "j", "o", "h", "n">> :> <<"3", "j", "o", "h", "n">>) @@
    (<<"j", "u", "d", "e">> :> <<"j", "u", "d", "e">>) @@
    (<<"r", "e", "v", "e", "l", "a", "t", "i", "o", "n">> :> <<"r", "e", "v">>) @@
    (<<"m", "a", "t", "t">> :> <<"m", "a", "t", "t">>) @@
    (<<"r", "o", "m">> :> <<"r", "o", "m">>) @@
    (<<"1", "c", "o", "r">> :> <<"1", "c", "o", "r">>) @@
    (<<"2", "c", "o", "r">> :> <<"2", "c", "o", "r">>) @@
    (<<"g", "a", "l">> :> <<"g", "a", "l">>) @@
    (<<"e", "p", "h">> :> <<"e", "p", "h">>) @@
    (<<"p", "h", "i", "l">> :> <<"p", "h", "i", "l">>) @@
    (<<"c", "o", "l">> :> <<"c", "o", "l">>) @@
    (<<"1", "t", "h", "e", "s", "s">> :> <<"1", "t", "h", "e", "s", "s">>) @@
    (<<"2", "t", "h", "e", "s", "s">> :> <<"2", "t", "h", "e", "s", "s">>) @@
    (<<"1", "t", "i", "m">> :> <<"1", "t", "i", "m">>) @@
    (<<"2", "t", "i", "m">> :> <<"2", "t", "i", "m">>) @@
    (<<"p", "h", "l", "m">> :> <<"p", "h", "l", "m">>) @@
    (<<"h", "e", "b">> :> <<"h", "e", "b">>) @@
    (<<"j", "a", "s">> :> <<"j", "a", "s">>) @@
    (<<"1", "p", "e", "t">> :> <<"1", "p", "e", "t">>) @@
    (<<"2", "p", "e", "t">> :> <<"2", "p", "e", "t">>)

\* BOOK_ID_MAP.get(book_id.lower(), book_id)
normalize_book_id(book_id) ==
    IF LowerLatin(book_id) \in DOMAIN BOOK_ID_MAP
    THEN BOOK_ID_MAP[LowerLatin(book_id)] ELSE book_id

\* a dict without the int key: verse.get("verse", 0) and the like
NoNumber == -1

\* str(n) of an int
IntToStr(n) == IF n < 0 THEN <<"-">> \o IntToDigits(0 - n) ELSE IntToDigits(n)

\* verse.get("verse", 0)
VerseNum(verse) == IF verse.verse = NoNumber THEN 0 ELSE verse.verse

\* f"{book}-{chapter}-{verse_num}"
VerseId(book, chapter, verse_num) ==
    book \o <<"-">> \o IntToStr(chapter) \o <<"-">> \o IntToStr(verse_num)

make_verse_key(verse) ==
    VerseId(normalize_book_id(verse.book), verse.chapter, VerseNum(verse))

IsSpace(c) == c = " "

IsPunct(c) == c \in {",", ";", ":", ".", "!", "?"}

RECURSIVE CollapseSpaces(_)
\* re.sub(r'\s+', ' ', translation)
CollapseSpaces(s) ==
    IF s = <<>> THEN <<>>
    ELSE IF IsSpace(Head(s))
         THEN <<" ">> \o CollapseSpaces(LStrip(s))
         ELSE <<Head(s)>> \o CollapseSpaces(Tail(s))

RECURSIVE DropSpaceBeforePunct(_)
\* re.sub(r'\s+([,;:.!?])', r'\1', translation)
DropSpaceBeforePunct(s) ==
    IF s = <<>> THEN <<>>
    ELSE LET rest == LStrip(s)
         IN  IF IsSpace(Head(s)) /\ rest /= <<>> /\ IsPunct(Head(rest))
             THEN <<Head(rest)>> \o DropSpaceBeforePunct(Tail(rest))
             ELSE <<Head(s)>> \o DropSpaceBeforePunct(Tail(s))

RECURSIVE CapitalizeAfterPeriod(_)
\* re.sub(r'(\. )([a-z])', capitalize_after_period, translation)
CapitalizeAfterPeriod(s) ==
    IF Len(s) < 3 THEN s
    ELSE IF s[1] = "." /\ s[2] = " " /\ IsLowerLatin(s[3])
         THEN <<".", " ", ToUpperLatin(s[3])>> \o CapitalizeAfterPeriod(SubSeq(s, 4, Len(s)))
         ELSE <<Head(s)>> \o CapitalizeAfterPeriod(Tail(s))

\* translation[0].upper() + translation[1:] when translation[0].islower()
CapitalizeFirst(s) ==
    IF s /= <<>> /\ IsLowerLatin(s[1]) THEN <<ToUpperLatin(s[1])>> \o Tail(s) ELSE s

clean_translation(translation) ==
    CapitalizeFirst(CapitalizeAfterPeriod(DropSpaceBeforePunct(Strip(CollapseSpaces(translation)))))

TextOr(value, default) == IF value = NoText THEN default ELSE value

NumberOr(value, default) == IF value = NoNumber THEN default ELSE value

\* a plausible slip: a stored id is kept
normalize_verse_KeepId(verse) ==
    LET book      == normalize_book_id(verse.book)
        verse_num == VerseNum(verse)
    IN  [id                   |-> TextOr(verse.id, VerseId(book, verse.chapter, verse_num)),
         book                 |-> book,
         chapter              |-> verse.chapter,
         verse                |-> verse_num,
         reference            |-> TextOr(verse.reference, <<>>),
         greek                |-> TextOr(verse.greek, <<>>),
         transliteration      |-> TextOr(verse.transliteration, <<>>),
         referenceTranslation |-> clean_translation(TextOr(verse.referenceTranslation, <<>>)),
         keyTerms             |-> TextOr(verse.keyTerms, <<>>),
         difficulty           |-> NumberOr(verse.difficulty, 2),
         notes                |-> TextOr(verse.notes, <<>>),
         tier                 |-> NumberOr(verse.tier, 2)]

\* the record of twelve fields, the id made anew of book, chapter and verse
normalize_verse(verse) ==
    LET book      == normalize_book_id(verse.book)
        verse_num == VerseNum(verse)
    IN  [id                   |-> VerseId(book, verse.chapter, verse_num),
         book                 |-> book,
         chapter              |-> verse.chapter,
         verse                |-> verse_num,
         reference            |-> TextOr(verse.reference, <<>>),
         greek                |-> TextOr(verse.greek, <<>>),
         transliteration      |-> TextOr(verse.transliteration, <<>>),
         referenceTranslation |-> clean_translation(TextOr(verse.referenceTranslation, <<>>)),
         keyTerms             |-> TextOr(verse.keyTerms, <<>>),
         difficulty           |-> NumberOr(verse.difficulty, 2),
         notes                |-> TextOr(verse.notes, <<>>),
         tier                 |-> NumberOr(verse.tier, 2)]

\* the merge state of main: normalized_existing, existing_keys, added, skipped
EmptyMerge ==
    [normalized_existing |-> <<>>, existing_keys |-> {}, added |-> 0, skipped |-> 0]

\* a plausible slip: the key of an existing verse is not recorded
AddExisting_NoKey(st, verse) ==
    [st EXCEPT !.normalized_existing = Append(@, normalize_verse(verse))]

\* the body of "for verse in existing_verses"
AddExisting(st, verse) ==
    LET normalized == normalize_verse(verse)
        key        == make_verse_key(normalized)
    IN  [st EXCEPT !.normalized_existing = Append(@, normalized),
                   !.existing_keys = @ \cup {key}]

\* a plausible slip: on a collision the incoming verse replaces the verse
\* that has its key
MergeVerse_NewWins(st, verse) ==
    LET normalized == normalize_verse(verse)
        key        == make_verse_key(normalized)
    IN  IF key \notin st.existing_keys
        THEN [st EXCEPT !.normalized_existing = Append(@, normalized),
                        !.existing_keys = @ \cup {key},
                        !.added = @ + 1]
        ELSE [st EXCEPT !.normalized_existing =
                            [i \in 1..Len(@) |->
                                IF make_verse_key(@[i]) = key THEN normalized ELSE @[i]],
                        !.skipped = @ + 1]

\* the body of "for verse in new_verses"
MergeVerse(st, verse) ==
    LET normalized == normalize_verse(verse)
        key        == make_verse_key(normalized)
    IN  IF key \notin st.existing_keys
        THEN [st EXCEPT !.normalized_existing = Append(@, normalized),
                        !.existing_keys = @ \cup {key},
                        !.added = @ + 1]
        ELSE [st EXCEPT !.skipped = @ + 1]

\* book_order.get(v["book"], 100): the default for a book that is not listed
UnknownBookOrder == 100

\* book_order = {b["id"]: i for i, b in enumerate(books)}: the last position
\* of the id, counted from 0
BookOrder(bks, id) ==
    LET at == {i \in 1..Len(bks) : bks[i].id = id}
    IN  IF at = {} THEN UnknownBookOrder
        ELSE (CHOOSE i \in at : \A j \in at : j <= i) - 1

sort_key(bks, v) == <<BookOrder(bks, v.book), v.chapter, v.verse>>

\* the order of Python tuples of three ints
TupleLess(a, b) ==
    \/ a[1] < b[1]
    \/ a[1] = b[1] /\ a[2] < b[2]
    \/ a[1] = b[1] /\ a[2] = b[2] /\ a[3] < b[3]

RECURSIVE InsertByKey(_, _, _)
\* v goes behind every verse whose key is not greater than its own
InsertByKey(sorted, v, bks) ==
    IF sorted = <<>> THEN <<v>>
    ELSE IF TupleLess(sort_key(bks, v), sort_key(bks, Head(sorted)))
         THEN <<v>> \o sorted
         ELSE <<Head(sorted)>> \o InsertByKey(Tail(sorted), v, bks)

RECURSIVE SortVerses(_, _)
\* normalized_existing.sort(key=sort_key): list.sort is stable
SortVerses(vs, bks) ==
    IF vs = <<>> THEN <<>>
    ELSE InsertByKey(SortVerses(SubSeq(vs, 1, Len(vs) - 1), bks), vs[Len(vs)], bks)

\* ---------------------------------------------------------------------
\* fetch_greek_verses: verse entries and their tier
\* ---------------------------------------------------------------------
BOOK_MAP ==
    (40 :> <<<<"m", "a", "t", "t">>, <<"M", "a", "t", "t", "h", "e", "w">>>>) @@
    (41 :> <<<<"m", "a", "r", "k">>, <<"M", "a", "r", "k">>>>) @@
    (42 :> <<<<"l", "u", "k", "e">>, <<"L", "u", "k", "e">>>>) @@
    (43 :> <<<<"j", "o", "h", "n">>, <<"J", "o", "h", "n">>>>) @@
    (44 :> <<<<"a", "c", "t", "s">>, <<"A", "c", "t", "s">>>>) @@
    (45 :> <<<<"r", "o", "m">>, <<"R", "o", "m", "a", "n", "s">>>>) @@
    (46 :> <<<<"1", "c", "o", "r">>, <<"1", " ", "C", "o", "r", "i", "n", "t", "h", "i", "a", "n", "s">>>>) @@
    (47 :> <<<<"2", "c", "o", "r">>, <<"2", " ", "C", "o", "r", "i", "n", "t", "h", "i", "a", "n", "s">>>>) @@
    (48 :> <<<<"g", "a", "l">>, <<"G", "a", "l", "a", "t", "i", "a", "n", "s">>>>) @@
    (49 :> <<<<"e", "p", "h">>, <<"E", "p", "h", "e", "s", "i", "a", "n", "s">>>>) @@
    (50 :> <<<<"p", "h", "i", "l">>, <<"P", "h", "i", "l", "i", "p", "p", "i", "a", "n", "s">>>>) @@
    (51 :> <<<<"c", "o", "l">>, <<"C", "o", "l", "o", "s", "s", "i", "a", "n", "s">>>>) @@
    (52 :> <<<<"1", "t", "h", "e", "s", "s">>, <<"1", " ", "T", "h", "e", "s", "s", "a", "l", "o", "n", "i", "a", "n", "s">>>>) @@
    (53 :> <<<<"2", "t", "h", "e", "s", "s">>, <<"2", " ", "T", "h", "e", "s", "s", "a", "l", "o", "n", "i", "a", "n", "s">>>>) @@
    (54 :> <<<<"1", "t", "i", "m">>, <<"1", " ", "T", "i", "m", "o", "t", "h", "y">>>>) @@
    (55 :> <<<<"2", "t", "i", "m">>, <<"2", " ", "T", "i", "m", "o", "t", "h", "y">>>>) @@
    (56 :> <<<<"t", "i", "t", "u", "s">>, <<"T", "i", "t", "u", "s">>>>) @@
    (57 :> <<<<"p", "h", "l", "m">>, <<"P", "h", "i", "l", "e", "m", "o", "n">>>>) @@
    (58 :> <<<<"h", "e", "b">>, <<"H", "e", "b", "r", "e", "w", "s">>>>) @@
    (59 :> <<<<"j", "a", "s">>, <<"J", "a", "m", "e", "s">>>>) @@
    (60 :> <<<<"1", "p", "e", "t">>, <<"1", " ", "P", "e", "t", "e", "r">>>>) @@
    (61 :> <<<<"2", "p", "e", "t">>, <<"2", " ", "P", "e", "t", "e", "r">>>>) @@
    (62 :> <<<<"1", "j", "o", "h", "n">>, <<"1", " ", "J", "o", "h", "n">>>>) @@
    (63 :> <<<<"2", "j", "o", "h", "n">>, <<"2", " ", "J", "o", "h", "n">>>>) @@
    (64 :> <<<<"3", "j", "o", "h", "n">>, <<"3", " ", "J", "o", "h", "n">>>>) @@
    (65 :> <<<<"j", "u", "d", "e">>, <<"J", "u", "d", "e">>>>) @@
    (66 :> <<<<"r", "e", "v">>, <<"R", "e", "v", "e", "l", "a", "t", "i", "o", "n">>>>)

FAMOUS_VERSES ==
    <<<<40, 1, 21>>, <<40, 3, 2>>, <<40, 4, 4>>, <<40, 5, 3>>, <<40, 5, 8>>,
      <<40, 5, 9>>, <<40, 5, 14>>, <<40, 5, 16>>, <<40, 5, 44>>, <<40, 6, 9>>,
      <<40, 6, 10>>, <<40, 6, 11>>, <<40, 6, 12>>, <<40, 6, 13>>, <<40, 6, 33>>,
      <<40, 7, 7>>, <<40, 7, 12>>, <<40, 11, 28>>, <<40, 11, 29>>, <<40, 16, 18>>,
      <<40, 16, 24>>, <<40, 18, 20>>, <<40, 22, 37>>, <<40, 22, 39>>, <<40, 28, 18>>,
      <<40, 28, 19>>, <<40, 28, 20>>, <<41, 1, 1>>, <<41, 1, 15>>, <<41, 8, 34>>,
      <<41, 8, 35>>, <<41, 10, 45>>, <<41, 12, 30>>, <<41, 12, 31>>, <<41, 16, 15>>,
      <<41, 16, 16>>, <<42, 1, 37>>, <<42, 2, 10>>, <<42, 2, 11>>, <<42, 2, 14>>,
      <<42, 4, 18>>, <<42, 6, 31>>, <<42, 9, 23>>, <<42, 10, 27>>, <<42, 11, 9>>,
      <<42, 15, 7>>, <<42, 19, 10>>, <<42, 23, 34>>, <<42, 24, 6>>, <<42, 24, 7>>,
      <<43, 1, 4>>, <<43, 1, 5>>, <<43, 1, 9>>, <<43, 1, 10>>, <<43, 1, 11>>,
      <<43, 1, 12>>, <<43, 1, 16>>, <<43, 1, 17>>, <<43, 1, 18>>, <<43, 3, 3>>,
      <<43, 3, 5>>, <<43, 3, 7>>, <<43, 3, 17>>, <<43, 3, 18>>, <<43, 3, 19>>,
      <<43, 3, 36>>, <<43, 4, 24>>, <<43, 5, 24>>, <<43, 6, 35>>, <<43, 6, 37>>,
      <<43, 6, 40>>, <<43, 6, 47>>, <<43, 6, 68>>, <<43, 7, 37>>, <<43, 7, 38>>,
      <<43, 8, 12>>, <<43, 8, 31>>, <<43, 8, 32>>, <<43, 8, 34>>, <<43, 8, 36>>,
      <<43, 10, 9>>, <<43, 10, 10>>, <<43, 10, 11>>, <<43, 10, 27>>, <<43, 10, 28>>,
      <<43, 10, 30>>, <<43, 11, 25>>, <<43, 11, 35>>, <<43, 12, 32>>, <<43, 12, 46>>,
      <<43, 13, 34>>, <<43, 13, 35>>, <<43, 14, 15>>, <<43, 14, 21>>, <<43, 14, 23>>,
      <<43, 14, 27>>, <<43, 15, 5>>, <<43, 15, 12>>, <<43, 15, 13>>, <<43, 16, 33>>,
      <<43, 17, 3>>, <<43, 17, 17>>, <<43, 20, 29>>, <<43, 20, 31>>, <<43, 21, 17>>,
      <<44, 1, 8>>, <<44, 2, 38>>, <<44, 2, 42>>, <<44, 4, 12>>, <<44, 16, 31>>,
      <<44, 17, 28>>, <<44, 20, 35>>, <<45, 1, 16>>, <<45, 1, 17>>, <<45, 3, 23>>,
      <<45, 5, 1>>, <<45, 5, 8>>, <<45, 6, 23>>, <<45, 8, 1>>, <<45, 8, 18>>,
      <<45, 8, 26>>, <<45, 8, 28>>, <<45, 8, 31>>, <<45, 8, 37>>, <<45, 8, 38>>,
      <<45, 8, 39>>, <<45, 10, 9>>, <<45, 10, 10>>, <<45, 10, 17>>, <<45, 11, 33>>,
      <<45, 12, 1>>, <<45, 12, 2>>, <<45, 12, 9>>, <<45, 12, 10>>, <<45, 12, 12>>,
      <<45, 12, 21>>, <<45, 13, 8>>, <<45, 15, 13>>, <<46, 1, 18>>, <<46, 2, 9>>,
      <<46, 6, 19>>, <<46, 6, 20>>, <<46, 10, 13>>, <<46, 10, 31>>, <<46, 12, 27>>,
      <<46, 13, 1>>, <<46, 13, 4>>, <<46, 13, 7>>, <<46, 13, 8>>, <<46, 13, 13>>,
      <<46, 15, 3>>, <<46, 15, 4>>, <<46, 15, 10>>, <<46, 15, 55>>, <<46, 15, 57>>,
      <<46, 16, 13>>, <<47, 4, 18>>, <<47, 5, 7>>, <<47, 5, 17>>, <<47, 5, 21>>,
      <<47, 9, 7>>, <<47, 12, 9>>, <<47, 12, 10>>, <<48, 2, 20>>, <<48, 3, 28>>,
      <<48, 5, 1>>, <<48, 5, 22>>, <<48, 5, 23>>, <<48, 6, 9>>, <<49, 2, 8>>,
      <<49, 2, 9>>, <<49, 2, 10>>, <<49, 3, 20>>, <<49, 4, 32>>, <<49, 5, 25>>,
      <<49, 6, 10>>, <<49, 6, 11>>, <<49, 6, 12>>, <<50, 1, 6>>, <<50, 1, 21>>,
      <<50, 2, 3>>, <<50, 2, 5>>, <<50, 2, 8>>, <<50, 2, 9>>, <<50, 2, 10>>,
      <<50, 2, 11>>, <<50, 3, 13>>, <<50, 3, 14>>, <<50, 4, 4>>, <<50, 4, 6>>,
      <<50, 4, 7>>, <<50, 4, 8>>, <<50, 4, 13>>, <<50, 4, 19>>, <<51, 1, 15>>,
      <<51, 1, 16>>, <<51, 1, 17>>, <<51, 2, 9>>, <<51, 3, 1>>, <<51, 3, 2>>,
      <<51, 3, 12>>, <<51, 3, 13>>, <<51, 3, 17>>, <<51, 3, 23>>, <<52, 4, 3>>,
      <<52, 5, 16>>, <<52, 5, 17>>, <<52, 5, 18>>, <<53, 3, 3>>, <<54, 2, 5>>,
      <<54, 4, 12>>, <<54, 6, 6>>, <<54, 6, 10>>, <<54, 6, 12>>, <<55, 1, 7>>,
      <<55, 2, 15>>, <<55, 3, 16>>, <<55, 3, 17>>, <<55, 4, 7>>, <<56, 2, 11>>,
      <<56, 3, 5>>, <<58, 4, 12>>, <<58, 4, 16>>, <<58, 10, 25>>, <<58, 11, 1>>,
      <<58, 11, 6>>, <<58, 12, 1>>, <<58, 12, 2>>, <<58, 13, 5>>, <<58, 13, 8>>,
      <<59, 1, 2>>, <<59, 1, 5>>, <<59, 1, 17>>, <<59, 1, 22>>, <<59, 2, 17>>,
      <<59, 4, 7>>, <<59, 5, 16>>, <<60, 2, 9>>, <<60, 2, 24>>, <<60, 3, 15>>,
      <<60, 4, 8>>, <<60, 5, 7>>, <<60, 5, 8>>, <<61, 1, 21>>, <<61, 3, 9>>,
      <<62, 1, 9>>, <<62, 2, 1>>, <<62, 2, 2>>, <<62, 2, 15>>, <<62, 3, 1>>,
      <<62, 3, 16>>, <<62, 3, 18>>, <<62, 4, 8>>, <<62, 4, 10>>, <<62, 4, 11>>,
      <<62, 4, 18>>, <<62, 4, 19>>, <<62, 5, 3>>, <<62, 5, 11>>, <<62, 5, 12>>,
      <<62, 5, 13>>, <<65, 1, 24>>, <<65, 1, 25>>, <<66, 1, 8>>, <<66, 3, 20>>,
      <<66, 21, 4>>, <<66, 22, 13>>, <<66, 22, 17>>, <<66, 22, 20>>, <<66, 22, 21>>>>

\* BOOK_MAP.get(book_code, ("unknown", "Unknown"))
BookOf(book_code) ==
    IF book_code \in DOMAIN BOOK_MAP THEN BOOK_MAP[book_code]
    ELSE <<<<"u", "n", "k", "n", "o", "w", "n">>, <<"U", "n", "k", "n", "o", "w", "n">>>>

\* f"{book_name} {chapter}:{verse}"
Reference(book_name, chapter, verse) ==
    book_name \o <<" ">> \o IntToStr(chapter) \o <<":">> \o IntToStr(verse)

RECURSIVE SpaceJoin(_)
\* " ".join(words)
SpaceJoin(ws) ==
    IF ws = <<>> THEN <<>>
    ELSE IF Len(ws) = 1 THEN ws[1]
    ELSE ws[1] \o <<" ">> \o SpaceJoin(Tail(ws))

\* re.sub(r'\s+', ' ', text).strip()
CleanText(t) == Strip(CollapseSpaces(t))

RECURSIVE SplitWords(_)
\* str.split(): the runs of characters that are not white space
SplitWords(t) ==
    LET rest == LStrip(t)
        stop == IndexOf(rest, " ", 1)
    IN  IF rest = <<>> THEN <<>>
        ELSE IF stop = 0 THEN <<rest>>
        ELSE <<SubSeq(rest, 1, stop - 1)>> \o SplitWords(SubSeq(rest, stop, Len(rest)))

\* a plausible slip: the thresholds are exclusive
TierOf_Exclusive(word_count) ==
    IF word_count < 10 THEN 1
    ELSE IF word_count < 20 THEN 2
    ELSE 3

\* if word_count <= 10 ... elif word_count <= 20 ... else
TierOf(word_count) ==
    IF word_count <= 10 THEN 1
    ELSE IF word_count <= 20 THEN 2
    ELSE 3

create_verse_entry(book_code, chapter, verse, greek_text, translation, tier) ==
    LET book_id   == BookOf(book_code)[1]
        book_name == BookOf(book_code)[2]
    IN  [id                   |-> VerseId(book_id, chapter, verse),
         book                 |-> book_id,
         chapter              |-> chapter,
         verse                |-> verse,
         reference            |-> Reference(book_name, chapter, verse),
         greek                |-> greek_text,
         transliteration      |-> <<>>,
         referenceTranslation |-> translation,
         keyTerms             |-> <<>>,
         difficulty           |-> tier,
         notes                |-> <<>>,
         tier                 |-> tier]

\* the entry main makes of a famous verse that parse_keyed_features found
EntryFor(key, data) ==
    LET greek_text  == CleanText(SpaceJoin(data.greek_words))
        translation == CleanText(SpaceJoin(data.translations))
        word_count  == Len(SplitWords(greek_text))
    IN  create_verse_entry(key[1], key[2], key[3], greek_text, translation,
                           TierOf(word_count))

\* what main appends to missing for a famous verse that was not found
MissingFor(key) == Reference(BookOf(key[1])[2], key[2], key[3])

\* ---------------------------------------------------------------------
\* fetch_translations.py: the quality heuristic.  A translation is a text
\* of Latin letters, digits, punctuation, blanks and line feeds.
\* ---------------------------------------------------------------------
\* the class \s
IsWhite(c) == c \in {" ", "\n"}

\* the class \w
IsWordChar(c) == IsLowerLatin(c) \/ IsUpperLatin(c) \/ IsDigit(c) \/ c = "_"

\* \b in front of position i, for a word character at i
WordStartsAt(s, i) == i = 1 \/ ~IsWordChar(s[i - 1])

\* \b behind position i - 1, for a word character at i - 1
WordEndsBefore(s, i) == i > Len(s) \/ ~IsWordChar(s[i])

\* $ in front of position i: the end, or a line feed that ends the text
EndsAt(s, i) == i = Len(s) + 1 \/ (i = Len(s) /\ s[i] = "\n")

RECURSIVE RunEnd(_, _, _)
\* the position behind the longest run of characters of a class from i on
RunEnd(InClass(_), s, i) ==
    IF i <= Len(s) /\ InClass(s[i]) THEN RunEnd(InClass, s, i + 1) ELSE i

\* the literal w stands at position i
StandsAt(s, i, w) == i + Len(w) - 1 <= Len(s) /\ SubSeq(s, i, i + Len(w) - 1) = w

\* r'\b[A-Z][a-z]+\s+[a-z]+\s+[A-Z]'
RandomCaps(s) ==
    \E i \in 1..Len(s) :
        LET a == RunEnd(IsLowerLatin, s, i + 1)
            b == RunEnd(IsWhite, s, a)
            c == RunEnd(IsLowerLatin, s, b)
            d == RunEnd(IsWhite, s, c)
        IN  /\ WordStartsAt(s, i) /\ IsUpperLatin(s[i])
            /\ a > i + 1 /\ b > a /\ c > b /\ d > c
            /\ d <= Len(s) /\ IsUpperLatin(s[d])

\* r'\.\s*[a-z]+$'
LowercaseAfterPeriod(s) ==
    \E i \in 1..Len(s) :
        LET a == RunEnd(IsWhite, s, i + 1)
            b == RunEnd(IsLowerLatin, s, a)
        IN  s[i] = "." /\ b > a /\ EndsAt(s, b)

\* r'^[A-Z][a-z]+\s+[a-z]+\s+And\b'
WordWordAnd(s) ==
    LET a == RunEnd(IsLowerLatin, s, 2)
        b == RunEnd(IsWhite, s, a)
        c == RunEnd(IsLowerLatin, s, b)
        d == RunEnd(IsWhite, s, c)
    IN  /\ s /= <<>> /\ IsUpperLatin(s[1])
        /\ a > 2 /\ b > a /\ c > b /\ d > c
        /\ StandsAt(s, d, <<"A", "n", "d">>) /\ WordEndsBefore(s, d + 3)

Articles ==
    {<<"t", "h", "e">>, <<"a">>, <<"a", "n">>, <<"o", "f">>, <<"i", "n">>, <<"t", "o">>}

\* r'\b(the|a|an|of|in|to)\s+\.$'
ArticleBeforePeriod(s) ==
    \E i \in 1..Len(s) : \E w \in Articles :
        LET a == i + Len(w)
            b == RunEnd(IsWhite, s, a)
        IN  /\ WordStartsAt(s, i) /\ StandsAt(s, i, w)
            /\ b > a /\ b <= Len(s) /\ s[b] = "." /\ EndsAt(s, b + 1)

\* r'\bHis\s+[a-z]'
HisBeforeLowercase(s) ==
    \E i \in 1..Len(s) :
        LET b == RunEnd(IsWhite, s, i + 3)
        IN  /\ WordStartsAt(s, i) /\ StandsAt(s, i, <<"H", "i", "s">>)
            /\ b > i + 3 /\ b <= Len(s) /\ IsLowerLatin(s[b])

is_awkward_translation(translation) ==
    \/ translation = <<>>
    \/ RandomCaps(translation)
    \/ LowercaseAfterPeriod(translation)
    \/ WordWordAnd(translation)
    \/ ArticleBeforePeriod(translation)
    \/ HisBeforeLowercase(translation)

BOOK_NAME_MAP ==
    (<<"m", "a", "t", "t">> :> <<"M", "a", "t", "t", "h", "e", "w">>) @@
    (<<"m", "a", "r", "k">> :> <<"M", "a", "r", "k">>) @@
    (<<"l", "u", "k", "e">> :> <<"L", "u", "k", "e">>) @@
    (<<"j", "o", "h", "n">> :> <<"J", "o", "h", "n">>) @@
    (<<"a", "c", "t", "s">> :> <<"A", "c", "t", "s">>) @@
    (<<"r", "o", "m">> :> <<"R", "o", "m", "a", "n", "s">>) @@
    (<<"1", "c", "o", "r">> :> <<"1", " ", "C", "o", "r", "i", "n", "t", "h", "i", "a", "n", "s">>) @@
    (<<"2", "c", "o", "r">> :> <<"2", " ", "C", "o", "r", "i", "n", "t", "h", "i", "a", "n", "s">>) @@
    (<<"g", "a", "l">> :> <<"G", "a", "l", "a", "t", "i", "a", "n", "s">>) @@
    (<<"e", "p", "h">> :> <<"E", "p", "h", "e", "s", "i", "a", "n", "s">>) @@
    (<<"p", "h", "i", "l">> :> <<"P", "h", "i", "l", "i", "p", "p", "i", "a", "n", "s">>) @@
    (<<"c", "o", "l">> :> <<"C", "o", "l", "o", "s", "s", "i", "a", "n", "s">>) @@
    (<<"1", "t", "h", "e", "s", "s">> :> <<"1", " ", "T", "h", "e", "s", "s", "a", "l", "o", "n", "i", "a", "n", "s">>) @@
    (<<"2", "t", "h", "e", "s", "s">> :> <<"2", " ", "T", "h", "e", "s", "s", "a", "l", "o", "n", "i", "a", "n", "s">>) @@
    (<<"1", "t", "i", "m">> :> <<"1", " ", "T", "i", "m", "o", "t", "h", "y">>) @@
    (<<"2", "t", "i", "m">> :> <<"2", " ", "T", "i", "m", "o", "t", "h", "y">>) @@
    (<<"t", "i", "t", "u", "s">> :> <<"T", "i", "t", "u", "s">>) @@
    (<<"p", "h", "l", "m">> :> <<"P", "h", "i", "l", "e", "m", "o", "n">>) @@
    (<<"h", "e", "b">> :> <<"H", "e", "b", "r", "e", "w", "s">>) @@
    (<<"j", "a", "s">> :> <<"J", "a", "m", "e", "s">>) @@
    (<<"1", "p", "e", "t">> :> <<"1", " ", "P", "e", "t", "e", "r">>) @@
    (<<"2", "p", "e", "t">> :> <<"2", " ", "P", "e", "t", "e", "r">>) @@
    (<<"1", "j", "o", "h", "n">> :> <<"1", " ", "J", "o", "h", "n">>) @@
    (<<"2", "j", "o", "h", "n">> :> <<"2", " ", "J", "o", "h", "n">>) @@
    (<<"3", "j", "o", "h", "n">> :> <<"3", " ", "J", "o", "h", "n">>) @@
    (<<"j", "u", "d", "e">> :> <<"J", "u", "d", "e">>) @@
    (<<"r", "e", "v">> :> <<"R", "e", "v", "e", "l", "a", "t", "i", "o", "n">>)

\* BOOK_NAME_MAP.get(book_id, book_id)
BookName(book_id) ==
    IF book_id \in DOMAIN BOOK_NAME_MAP THEN BOOK_NAME_MAP[book_id] ELSE book_id

RECURSIVE LStripWhite(_)
LStripWhite(s) == IF s /= <<>> /\ IsWhite(Head(s)) THEN LStripWhite(Tail(s)) ELSE s

RECURSIVE RStripWhite(_)
RStripWhite(s) ==
    IF s /= <<>> /\ IsWhite(s[Len(s)]) THEN RStripWhite(SubSeq(s, 1, Len(s) - 1)) ELSE s

\* str.strip()
StripWhite(s) == RStripWhite(LStripWhite(s))

RECURSIVE CollapseWhite(_)
\* re.sub(r'\s+', ' ', text)
CollapseWhite(s) ==
    IF s = <<>> THEN <<>>
    ELSE IF IsWhite(Head(s))
         THEN <<" ">> \o CollapseWhite(LStripWhite(s))
         ELSE <<Head(s)>> \o CollapseWhite(Tail(s))

\* what the request ends in: the exception urlopen, read, decode or
\* json.loads raises, or the JSON document of the body
HTTPError == [kind |-> "HTTPError"]

URLError == [kind |-> "URLError"]

\* socket.timeout while the status line or the body is read
TimeoutError == [kind |-> "TimeoutError"]

\* the body is not UTF-8
UnicodeDecodeError == [kind |-> "UnicodeDecodeError"]

\* the body is not JSON
JSONDecodeError == [kind |-> "JSONDecodeError"]

\* the body is JSON but not an object: data.get raises AttributeError
NotAnObject == [kind |-> "AttributeError"]

\* the body is a JSON object; text is NoText when it has no "text"
Document(body_text) == [kind |-> "json", text |-> body_text]

\* except (urllib.error.HTTPError, urllib.error.URLError, json.JSONDecodeError)
CaughtKinds == {"HTTPError", "URLError", "JSONDecodeError"}

\* what fetch_verse_translation does with the answer: the text returned,
\* None returned, or the exception that leaves the function
fetch_verse_translation(resp) ==
    IF resp.kind = "json"
    THEN [raised |-> "", value |-> StripWhite(CollapseWhite(StripWhite(TextOr(resp.text, <<>>))))]
    ELSE IF resp.kind \in CaughtKinds
         THEN [raised |-> "", value |-> None]
         ELSE [raised |-> resp.kind, value |-> None]

\* "if new_translation:"
IsTruthy(value) == value /= None /\ value /= <<>>

\* the file has not been written
NotSaved == [written |-> FALSE, verses |-> <<>>]

Saved(vs) == [written |-> TRUE, verses |-> vs]

\* a plausible slip: every verse is flagged
FlaggedVerses_All(vs) == [i \in 1..Len(vs) |-> i]

\* needs_update: the positions of the verses is_awkward_translation flags
FlaggedVerses(vs) ==
    LET flagged == {i \in 1..Len(vs) :
                       is_awkward_translation(TextOr(vs[i].referenceTranslation, <<>>))}
        RECURSIVE Ascending(_)
        Ascending(S) ==
            IF S = {} THEN <<>>
            ELSE LET least == CHOOSE i \in S : \A j \in S : i <= j
                 IN  <<least>> \o Ascending(S \ {least})
    IN  Ascending(flagged)

\* max_updates = min(len(needs_update), 250)
UpdateLimit == 250

max_updates(flagged) == IF Len(flagged) < UpdateLimit THEN Len(flagged) ELSE UpdateLimit

\* nothing has been asked yet
NoResponse == [kind |-> "none"]

\* ---------------------------------------------------------------------
\* fetch_greek_verses: parse_keyed_features.  In a line of the csv text
\* "{", "}" and "|" stand for U+3014, U+3015 and U+FF5C.
\* ---------------------------------------------------------------------
\* white space of a csv line
IsLineSpace(c) == c \in {" ", "\t"}

\* "if not line.strip()"
IsEmptyLine(line) == \A i \in 1..Len(line) : IsLineSpace(line[i])

RECURSIVE LStripChars(_, _)
LStripChars(s, chars) ==
    IF s /= <<>> /\ Head(s) \in chars THEN LStripChars(Tail(s), chars) ELSE s

RECURSIVE RStripChars(_, _)
RStripChars(s, chars) ==
    IF s /= <<>> /\ s[Len(s)] \in chars
    THEN RStripChars(SubSeq(s, 1, Len(s) - 1), chars) ELSE s

\* text.strip('〔〕')
StripBrackets(s) == RStripChars(LStripChars(s, {"{", "}"}), {"{", "}"})

parse_bracket_field(field) == Split(StripBrackets(field), "|")

extract_greek_word(tantt_field) ==
    LET parts == Split(tantt_field, "=")
    IN  IF Len(parts) >= 2 THEN parts[2] ELSE <<>>

\* int(s) raises ValueError
NotInt == [ValueError |-> TRUE]

\* a plausible slip: a field that is not a number counts as 0
ParseInt_ZeroDefault(s) ==
    LET body   == RStripChars(LStripChars(s, {" ", "\t"}), {" ", "\t"})
        signed == body /= <<>> /\ Head(body) \in {"+", "-"}
        digits == IF signed THEN Tail(body) ELSE body
    IN  IF digits = <<>> \/ \E i \in 1..Len(digits) : ~IsDigit(digits[i]) THEN [value |-> 0]
        ELSE IF signed /\ Head(body) = "-" THEN [value |-> 0 - DigitsToInt(digits)]
        ELSE [value |-> DigitsToInt(digits)]

\* int(s) for a text of digits, signs, blanks and letters: white space
\* around the number and one sign in front of it are accepted; the number
\* comes in a record, which tells it from NotInt
ParseInt(s) ==
    LET body   == RStripChars(LStripChars(s, {" ", "\t"}), {" ", "\t"})
        signed == body /= <<>> /\ Head(body) \in {"+", "-"}
        digits == IF signed THEN Tail(body) ELSE body
    IN  IF digits = <<>> \/ \E i \in 1..Len(digits) : ~IsDigit(digits[i]) THEN NotInt
        ELSE IF signed /\ Head(body) = "-" THEN [value |-> 0 - DigitsToInt(digits)]
        ELSE [value |-> DigitsToInt(digits)]

\* translation.replace('[', '').replace(']', '')
DropSquareBrackets(s) == SelectSeq(s, LAMBDA c : c \notin {"[", "]"})

\* a bucket as the defaultdict makes it
EmptyBucket == [greek_words |-> <<>>, translations |-> <<>>]

\* verses[key], which adds the bucket when the key is new
Touch(vs, key) == IF key \in DOMAIN vs THEN vs ELSE vs @@ (key :> EmptyBucket)

AppendGreek(vs, key, greek_word) ==
    [Touch(vs, key) EXCEPT ![key].greek_words = Append(@, greek_word)]

AppendTranslation(vs, key, translation) ==
    [Touch(vs, key) EXCEPT ![key].translations = Append(@, translation)]

\* a plausible slip: the bucket is looked up before the two tests
Accumulate_TouchFirst(vs, key, greek_word, translation) ==
    LET touched    == Touch(vs, key)
        with_greek == IF greek_word /= <<>> THEN AppendGreek(touched, key, greek_word)
                      ELSE touched
    IN  IF translation /= <<>> /\ translation /= <<"-">>
        THEN AppendTranslation(with_greek, key, translation)
        ELSE with_greek

\* the two appends at the end of the try block
Accumulate(vs, key, greek_word, translation) ==
    LET with_greek == IF greek_word /= <<>> THEN AppendGreek(vs, key, greek_word) ELSE vs
    IN  IF translation /= <<>> /\ translation /= <<"-">>
        THEN AppendTranslation(with_greek, key, translation)
        ELSE with_greek

\* the body of "for line in lines[1:]": the verses after the line
ProcessRow(vs, line) ==
    IF IsEmptyLine(line) THEN vs
    ELSE LET parts == Split(line, "\t")
         IN  IF Len(parts) < 11 THEN vs
             ELSE LET ref_parts == parse_bracket_field(parts[5])
                  IN  IF Len(ref_parts) < 3 THEN vs
                      ELSE LET book        == ParseInt(ref_parts[1])
                               chapter     == ParseInt(ref_parts[2])
                               verse       == ParseInt(ref_parts[3])
                               greek_word  == extract_greek_word(StripBrackets(parts[8]))
                               trans_parts == parse_bracket_field(parts[11])
                               translation ==
                                   DropSquareBrackets(IF Len(trans_parts) > 2
                                                      THEN trans_parts[3] ELSE <<>>)
                           IN  IF NotInt \in {book, chapter, verse} THEN vs
                               ELSE Accumulate(vs, <<book.value, chapter.value, verse.value>>,
                                               greek_word, translation)

\* text.strip().split('\n'): the lines of the decoded csv text
Lines(csv_text) ==
    Split(RStripChars(LStripChars(csv_text, {" ", "\t", "\n"}), {" ", "\t", "\n"}), "\n")

RECURSIVE AggregateFrom(_, _, _)
AggregateFrom(vs, csv_lines, i) ==
    IF i > Len(csv_lines) THEN vs
    ELSE AggregateFrom(ProcessRow(vs, csv_lines[i]), csv_lines, i + 1)

\* the whole function: the header line is skipped
parse_keyed_features(csv_text) == AggregateFrom(<<>>, Lines(csv_text), 2)

\* get_active_form: the suffix of the test whose return statement is taken,
\* None when the function ends at "return None"
ActiveRule(middle_form) ==
    IF middle_form = <<>> THEN None
    ELSE IF EndsWith(middle_form, <<"o", "m", "a", "i">>) THEN <<"o", "m", "a", "i">>
    ELSE IF EndsWith(middle_form, <<"e", "o", "m", "a", "i">>) THEN <<"e", "o", "m", "a", "i">>
    ELSE IF EndsWith(middle_form, <<"m", "a", "i">>) THEN <<"m", "a", "i">>
    ELSE None

\* ---------------------------------------------------------------------
\* The parts of the state a script does not touch
\* ---------------------------------------------------------------------
IdleNorm == text = None /\ norm_key = None /\ norm_twice = None

IdleLoad == lines = <<>> /\ line_no = 1 /\ in_data = FALSE

IdleLexicon == lexicon_by_strong = <<>> /\ lexicon_by_greek = <<>>

IdleResolve ==
    /\ vocab = <<>>
    /\ words = <<>>
    /\ word_no = 1
    /\ matched_by_strong = 0
    /\ matched_by_greek = 0
    /\ unmatched = <<>>
    /\ found = <<>>

IdleMerge ==
    /\ existing_verses = <<>>
    /\ books = <<>>
    /\ new_verses = <<>>
    /\ verse_no = 1
    /\ normalized_existing = <<>>
    /\ existing_keys = {}
    /\ added = 0
    /\ skipped = 0

IdleFetch ==
    /\ verses = <<>>
    /\ famous_no = 1
    /\ output_verses = <<>>
    /\ missing = <<>>

IdleParse == rows = <<>> /\ row_no = 1

IdleTranslate ==
    /\ loaded_verses = <<>>
    /\ live_verses = <<>>
    /\ needs_update = <<>>
    /\ update_no = 1
    /\ updated = 0
    /\ failed = 0
    /\ fetch_log = <<>>
    /\ response = NoResponse
    /\ saved = NotSaved

IdleActive == active_arg = None /\ active_form = None /\ active_rule = None

IdleMorph == morph_arg = None /\ morph_result = NoMorph

\* ---------------------------------------------------------------------
\* Specification SpecNorm: normalize_greek applied to bounded texts
\* ---------------------------------------------------------------------
NormAlphabet == {"(", ")", "a", "A", "A'", "'", "S"}

Texts == SeqsUpTo(NormAlphabet, MaxTextLen) \cup {None}

InitNorm ==
    /\ pc = "norm"
    /\ text \in Texts
    /\ norm_key = None
    /\ norm_twice = None
    /\ IdleLoad /\ IdleLexicon /\ IdleResolve /\ IdleMerge /\ IdleFetch
    /\ IdleParse /\ IdleTranslate /\ IdleActive /\ IdleMorph

Normalize ==
    /\ pc = "norm"
    /\ norm_key' = normalize_greek(text)
    /\ pc' = "norm_once"
    /\ UNCHANGED <<text, norm_twice, loadVars, lexVars, resolveVars, mergeVars, fetchVars,
                   parseVars, translateVars, pureVars>>

Renormalize ==
    /\ pc = "norm_once"
    /\ norm_twice' = normalize_greek(norm_key)
    /\ pc' = "norm_done"
    /\ UNCHANGED <<text, norm_key, loadVars, lexVars, resolveVars, mergeVars, fetchVars,
                   parseVars, translateVars, pureVars>>

NextNorm == Normalize \/ Renormalize

SpecNorm == InitNorm /\ [][NextNorm]_vars

\* ---------------------------------------------------------------------
\* Specification SpecLoad: load_tbesg, one line per step
\* ---------------------------------------------------------------------
LexFiles ==
    {prefix \o body : prefix \in {<<>>, <<LineHeader>>},
                      body \in SeqsUpTo(LexLines, MaxLines)}

InitLoad ==
    /\ pc = "load"
    /\ lines \in LexFiles
    /\ line_no = 1
    /\ in_data = FALSE
    /\ IdleLexicon /\ IdleNorm /\ IdleResolve /\ IdleMerge /\ IdleFetch
    /\ IdleParse /\ IdleTranslate /\ IdleActive /\ IdleMorph

\* one iteration of "for line in f"
LoadLine ==
    /\ pc = "load"
    /\ line_no <= Len(lines)
    /\ LET st == ProcessLine([in_data   |-> in_data,
                              by_strong |-> lexicon_by_strong,
                              by_greek  |-> lexicon_by_greek], lines[line_no])
       IN  /\ in_data' = st.in_data
           /\ lexicon_by_strong' = st.by_strong
           /\ lexicon_by_greek' = st.by_greek
    /\ line_no' = line_no + 1
    /\ UNCHANGED <<pc, lines, normVars, resolveVars, mergeVars, fetchVars,
                   parseVars, translateVars, pureVars>>

\* return lexicon_by_strong, lexicon_by_greek
LoadReturn ==
    /\ pc = "load"
    /\ line_no > Len(lines)
    /\ pc' = "loaded"
    /\ UNCHANGED <<loadVars, lexVars, normVars, resolveVars, mergeVars, fetchVars,
                   parseVars, translateVars, pureVars>>

NextLoad == LoadLine \/ LoadReturn

SpecLoad == InitLoad /\ [][NextLoad]_vars

\* ---------------------------------------------------------------------
\* Specification SpecResolve: the loop of main over the words, against a
\* lexicon that load_tbesg built
\* ---------------------------------------------------------------------
Logos == <<"l", "o'", "g", "o", "j">>

Phobeomai == <<"f", "o", "b", "e'", "o", "m", "a", "i">>

Xenos == <<"c", "e'", "n", "o", "j">>

Word(id, strongs, greek) ==
    [id |-> id, strongs |-> strongs, greek |-> greek, morphology |-> NoMorphology]

VocabWords ==
    {Word(<<"d">>, G1166, Deiknumi),        \* in the manual mapping, identifier right
     Word(<<"d">>, G3056, Deiknumi),        \* in the manual mapping, identifier of Logos
     Word(<<"l">>, G3056, Logos),           \* identifier in the lexicon
     Word(<<"l">>, NoText, Logos),          \* no 'strongs' key, found by its form
     Word(<<"f">>, NoText, Phobeomai),      \* middle form of a lexicon verb
     Word(<<"c">>, NoText, Xenos)}          \* not in the lexicon

ResolveLines == {LineLogos, LineDeiknuo, LinePhobeo, LineAutos}

ResolveFiles == {<<LineHeader>> \o body : body \in SeqsUpTo(ResolveLines, MaxLexEntries)}

InitResolve ==
    /\ pc = "resolve"
    /\ \E file \in ResolveFiles :
          /\ lexicon_by_strong = load_tbesg(file).by_strong
          /\ lexicon_by_greek = load_tbesg(file).by_greek
    /\ vocab \in SeqsUpTo(VocabWords, MaxWords)
    /\ words = vocab
    /\ word_no = 1
    /\ matched_by_strong = 0
    /\ matched_by_greek = 0
    /\ unmatched = <<>>
    /\ found = <<>>
    /\ IdleNorm /\ IdleLoad /\ IdleMerge /\ IdleFetch
    /\ IdleParse /\ IdleTranslate /\ IdleActive /\ IdleMorph

\* a plausible slip: a match by the derived active form is not counted
ResolveNext_ActiveUncounted ==
    /\ pc = "resolve"
    /\ word_no <= Len(words)
    /\ LET word == words[word_no]
           r    == ResolveWord(word, lexicon_by_strong, lexicon_by_greek)
       IN  /\ words' = [words EXCEPT ![word_no] = UpdatedWord(word, r)]
           /\ matched_by_strong' =
                  matched_by_strong + (IF r.via \in {"manual", "strong"} THEN 1 ELSE 0)
           /\ matched_by_greek' =
                  matched_by_greek + (IF r.via = "greek" THEN 1 ELSE 0)
           /\ unmatched' = IF r.entry = NoEntry
                           THEN Append(unmatched, <<WordStrongs(word), WordGreek(word)>>)
                           ELSE unmatched
           /\ found' = Append(found, [entry |-> r.entry, via |-> r.via])
    /\ word_no' = word_no + 1
    /\ UNCHANGED <<pc, vocab, lexVars, normVars, loadVars, mergeVars, fetchVars,
                   parseVars, translateVars, pureVars>>

\* one iteration of "for word in vocab_data['words']"
ResolveNext ==
    /\ pc = "resolve"
    /\ word_no <= Len(words)
    /\ LET word == words[word_no]
           r    == ResolveWord(word, lexicon_by_strong, lexicon_by_greek)
       IN  /\ words' = [words EXCEPT ![word_no] = UpdatedWord(word, r)]
           /\ matched_by_strong' =
                  matched_by_strong + (IF r.via \in {"manual", "strong"} THEN 1 ELSE 0)
           /\ matched_by_greek' =
                  matched_by_greek + (IF r.via \in {"greek", "active"} THEN 1 ELSE 0)
           /\ unmatched' = IF r.entry = NoEntry
                           THEN Append(unmatched, <<WordStrongs(word), WordGreek(word)>>)
                           ELSE unmatched
           /\ found' = Append(found, [entry |-> r.entry, via |-> r.via])
    /\ word_no' = word_no + 1
    /\ UNCHANGED <<pc, vocab, lexVars, normVars, loadVars, mergeVars, fetchVars,
                   parseVars, translateVars, pureVars>>

\* the report and the save after the loop
ResolveDone ==
    /\ pc = "resolve"
    /\ word_no > Len(words)
    /\ pc' = "resolved"
    /\ UNCHANGED <<resolveVars, lexVars, normVars, loadVars, mergeVars, fetchVars,
                   parseVars, translateVars, pureVars>>

NextResolve == ResolveNext \/ ResolveDone

SpecResolve == InitResolve /\ [][NextResolve]_vars

\* ---------------------------------------------------------------------
\* Specification SpecMerge: merge_verses.main on bounded verse collections
\* ---------------------------------------------------------------------
Matthew == <<"M", "a", "t", "t", "h", "e", "w">>

Matt == <<"m", "a", "t", "t">>

Mark == <<"m", "a", "r", "k">>

Enoch == <<"e", "n", "o", "c", "h">>

\* an older record: long book id, id of the long form, translation not yet
\* cleaned, optional fields absent
VerseMatthew ==
    [id |-> <<"m", "a", "t", "t", "h", "e", "w", "-", "1", "-", "1">>,
     book |-> Matthew, chapter |-> 1, verse |-> 1,
     reference |-> <<"M", "t">>, greek |-> <<"b">>, transliteration |-> NoText,
     referenceTranslation |-> <<"a", " ", " ", "b", " ", ".", " ", "c">>,
     keyTerms |-> NoText, difficulty |-> NoNumber, notes |-> NoText,
     tier |-> NoNumber]

\* the same verse as fetch_greek_verses writes it
VerseMatt ==
    [id |-> <<"m", "a", "t", "t", "-", "1", "-", "1">>,
     book |-> Matt, chapter |-> 1, verse |-> 1,
     reference |-> <<"M", "t">>, greek |-> <<"b">>, transliteration |-> <<>>,
     referenceTranslation |-> <<"T", "h", "e">>,
     keyTerms |-> <<>>, difficulty |-> 1, notes |-> <<>>, tier |-> 1]

\* a verse of a book no list names
VerseEnoch ==
    [id |-> <<"e", "n", "o", "c", "h", "-", "1", "-", "1">>,
     book |-> Enoch, chapter |-> 1, verse |-> 1,
     reference |-> <<"E", "n">>, greek |-> <<"e">>, transliteration |-> <<>>,
     referenceTranslation |-> <<"E">>,
     keyTerms |-> <<>>, difficulty |-> 3, notes |-> <<>>, tier |-> 3]

\* a record without a verse number
VerseMark ==
    [id |-> <<"m", "a", "r", "k", "-", "2">>,
     book |-> Mark, chapter |-> 2, verse |-> NoNumber,
     reference |-> NoText, greek |-> NoText, transliteration |-> NoText,
     referenceTranslation |-> NoText,
     keyTerms |-> NoText, difficulty |-> 2, notes |-> NoText, tier |-> 2]

VerseRecords == {VerseMatthew, VerseMatt, VerseEnoch, VerseMark}

Book(id, name) == [id |-> id, name |-> name]

\* k more books in front of the list
Filler(k) == [i \in 1..k |-> Book(<<"b">> \o IntToDigits(i), <<"B">>)]

BookLists ==
    {<<>>,
     <<Book(Matt, <<"M", "t">>), Book(Mark, <<"M", "k">>)>>,
     <<Book(Mark, <<"M", "k">>), Book(Matt, <<"M", "t">>)>>,
     Filler(UnknownBookOrder) \o <<Book(Matt, <<"M", "t">>), Book(Mark, <<"M", "k">>)>>}

InitMerge ==
    /\ pc = "merge_existing"
    /\ existing_verses \in SeqsUpTo(VerseRecords, MaxExisting)
    /\ books \in BookLists
    /\ new_verses \in SeqsUpTo(VerseRecords, MaxNew)
    /\ verse_no = 1
    /\ normalized_existing = <<>>
    /\ existing_keys = {}
    /\ added = 0
    /\ skipped = 0
    /\ IdleNorm /\ IdleLoad /\ IdleLexicon /\ IdleResolve /\ IdleFetch
    /\ IdleParse /\ IdleTranslate /\ IdleActive /\ IdleMorph

MergeState ==
    [normalized_existing |-> normalized_existing, existing_keys |-> existing_keys,
     added |-> added, skipped |-> skipped]

SetMergeState(st) ==
    /\ normalized_existing' = st.normalized_existing
    /\ existing_keys' = st.existing_keys
    /\ added' = st.added
    /\ skipped' = st.skipped

\* one pass of "for verse in existing_verses"
MergeExisting ==
    /\ pc = "merge_existing"
    /\ verse_no <= Len(existing_verses)
    /\ SetMergeState(AddExisting(MergeState, existing_verses[verse_no]))
    /\ verse_no' = verse_no + 1
    /\ UNCHANGED <<pc, inputVars, normVars, loadVars, lexVars, resolveVars, fetchVars,
                   parseVars, translateVars, pureVars>>

\* the loop is over: added = 0, skipped = 0
MergeExistingDone ==
    /\ pc = "merge_existing"
    /\ verse_no > Len(existing_verses)
    /\ pc' = "merge_new"
    /\ verse_no' = 1
    /\ added' = 0
    /\ skipped' = 0
    /\ UNCHANGED <<normalized_existing, existing_keys, inputVars,
                   normVars, loadVars, lexVars, resolveVars, fetchVars,
                   parseVars, translateVars, pureVars>>

\* one pass of "for verse in new_verses"
MergeNew ==
    /\ pc = "merge_new"
    /\ verse_no <= Len(new_verses)
    /\ SetMergeState(MergeVerse(MergeState, new_verses[verse_no]))
    /\ verse_no' = verse_no + 1
    /\ UNCHANGED <<pc, inputVars, normVars, loadVars, lexVars, resolveVars, fetchVars,
                   parseVars, translateVars, pureVars>>

\* the loop is over: sort, and write books and verses back
MergeSortAndWrite ==
    /\ pc = "merge_new"
    /\ verse_no > Len(new_verses)
    /\ normalized_existing' = SortVerses(normalized_existing, books)
    /\ pc' = "merge_done"
    /\ UNCHANGED <<verse_no, existing_keys, added, skipped, inputVars,
                   normVars, loadVars, lexVars, resolveVars, fetchVars,
                   parseVars, translateVars, pureVars>>

NextMerge == MergeExisting \/ MergeExistingDone \/ MergeNew \/ MergeSortAndWrite

SpecMerge == InitMerge /\ [][NextMerge]_vars

\* ---------------------------------------------------------------------
\* Specification SpecFetch: the loop of fetch_greek_verses.main over the
\* first MaxFamous entries of FAMOUS_VERSES
\* ---------------------------------------------------------------------
\* n one-letter words
Repeat(n) == [i \in 1..n |-> <<"a">>]

\* the words parse_keyed_features may have collected for a verse; the last
\* two hold white space inside a word
WordLists ==
    {Repeat(n) : n \in 0..MaxVerseWords}
        \cup {<<<<"a", " ", "b">>>>, <<<<"a", " ", " ", "b">>, <<" ">>, <<"c">>>>}

VerseData(ws) == [greek_words |-> ws, translations |-> <<<<"T", "h", "e">>, <<"w">>>>]

FoundKeys == {FAMOUS_VERSES[1], FAMOUS_VERSES[2]}

VerseTables ==
    UNION {[S -> {VerseData(ws) : ws \in WordLists}] : S \in SUBSET FoundKeys}

InitFetch ==
    /\ pc = "fetch"
    /\ verses \in VerseTables
    /\ famous_no = 1
    /\ output_verses = <<>>
    /\ missing = <<>>
    /\ IdleNorm /\ IdleLoad /\ IdleLexicon /\ IdleResolve /\ IdleMerge
    /\ IdleParse /\ IdleTranslate /\ IdleActive /\ IdleMorph

\* "if key in verses": the entry is made and appended
FetchEntry ==
    /\ pc = "fetch"
    /\ famous_no <= Len(FAMOUS_VERSES) /\ famous_no <= MaxFamous
    /\ FAMOUS_VERSES[famous_no] \in DOMAIN verses
    /\ output_verses' = Append(output_verses,
                               EntryFor(FAMOUS_VERSES[famous_no],
                                        verses[FAMOUS_VERSES[famous_no]]))
    /\ famous_no' = famous_no + 1
    /\ UNCHANGED <<pc, verses, missing, normVars, loadVars, lexVars, resolveVars, mergeVars,
                   parseVars, translateVars, pureVars>>

\* "else": the verse is reported missing
FetchMissing ==
    /\ pc = "fetch"
    /\ famous_no <= Len(FAMOUS_VERSES) /\ famous_no <= MaxFamous
    /\ FAMOUS_VERSES[famous_no] \notin DOMAIN verses
    /\ missing' = Append(missing, MissingFor(FAMOUS_VERSES[famous_no]))
    /\ famous_no' = famous_no + 1
    /\ UNCHANGED <<pc, verses, output_verses, normVars, loadVars, lexVars, resolveVars, mergeVars,
                   parseVars, translateVars, pureVars>>

\* json.dump(output_verses, ...)
FetchSave ==
    /\ pc = "fetch"
    /\ famous_no > Len(FAMOUS_VERSES) \/ famous_no > MaxFamous
    /\ pc' = "fetch_done"
    /\ UNCHANGED <<fetchVars, normVars, loadVars, lexVars, resolveVars, mergeVars,
                   parseVars, translateVars, pureVars>>

NextFetch == FetchEntry \/ FetchMissing \/ FetchSave

SpecFetch == InitFetch /\ [][NextFetch]_vars

\* ---------------------------------------------------------------------
\* Specification SpecTranslate: fetch_translations.main on a bounded store,
\* the translation service answering as it likes
\* ---------------------------------------------------------------------
\* "the word of the Lord." followed by " and then"
LordAndThen ==
    <<"t", "h", "e", " ", "w", "o", "r", "d", " ", "o", "f", " ", "t", "h", "e", " ", "L", "o", "r", "d", ".", " ", "a", "n", "d", " ", "t", "h", "e", "n">>

InTheBeginning ==
    <<"I", "n", " ", "t", "h", "e", " ", "b", "e", "g", "i", "n", "n", "i", "n", "g", " ", "w", "a", "s", " ", "t", "h", "e", " ", "W", "o", "r", "d", ".">>

HisWord ==
    <<"H", "i", "s", " ", "w", "o", "r", "d">>

ForGodSoLoved ==
    <<" ", "F", "o", "r", " ", "G", "o", "d", " ", "s", "o", "\n", " ", "l", "o", "v", "e", "d", " ", "t", "h", "e", " ", "w", "o", "r", "l", "d", ".", "\n">>

StoredVerse(book, chapter, verse, translation) ==
    [id |-> VerseId(book, chapter, verse), book |-> book, chapter |-> chapter,
     verse |-> verse, reference |-> Reference(BookName(book), chapter, verse),
     greek |-> <<"l">>, transliteration |-> <<>>,
     referenceTranslation |-> translation,
     keyTerms |-> <<>>, difficulty |-> 2, notes |-> <<>>, tier |-> 2]

StoredVerses ==
    {StoredVerse(<<"j", "o", "h", "n">>, 3, 16, InTheBeginning),
     StoredVerse(<<"1", "c", "o", "r">>, 13, 4, LordAndThen),
     StoredVerse(<<"j", "o", "h", "n">>, 1, 1, <<>>),
     StoredVerse(Enoch, 1, 1, HisWord),
     StoredVerse(Mark, 1, 1, NoText)}

Responses ==
    {HTTPError, URLError, TimeoutError, UnicodeDecodeError, JSONDecodeError, NotAnObject,
     Document(ForGodSoLoved), Document(<<" ", "\n">>), Document(NoText)}

InitTranslate ==
    /\ pc = "translate"
    /\ loaded_verses \in SeqsUpTo(StoredVerses, MaxStored)
    /\ live_verses = loaded_verses
    /\ needs_update = <<>>
    /\ update_no = 1
    /\ updated = 0
    /\ failed = 0
    /\ fetch_log = <<>>
    /\ response = NoResponse
    /\ saved = NotSaved
    /\ IdleNorm /\ IdleLoad /\ IdleLexicon /\ IdleResolve /\ IdleMerge /\ IdleFetch
    /\ IdleParse /\ IdleActive /\ IdleMorph

\* the loop that fills needs_update, and the return when nothing is flagged
TranslateScan ==
    /\ pc = "translate"
    /\ needs_update' = FlaggedVerses(live_verses)
    /\ pc' = IF FlaggedVerses(live_verses) = <<>> THEN "translate_returned"
             ELSE "translate_fetch"
    /\ UNCHANGED <<loaded_verses, live_verses, update_no, updated, failed, fetch_log,
                   response, saved>>
    /\ UNCHANGED <<normVars, loadVars, lexVars, resolveVars, mergeVars, fetchVars,
                   parseVars, pureVars>>

\* one pass of "for idx, (i, verse) in enumerate(needs_update[:max_updates])"
TranslateFetch ==
    /\ pc = "translate_fetch"
    /\ update_no <= max_updates(needs_update)
    /\ \E resp \in Responses :
          LET i      == needs_update[update_no]
              verse  == live_verses[i]
              result == fetch_verse_translation(resp)
          IN  /\ response' = resp
              /\ fetch_log' = Append(fetch_log,
                     [verse |-> i,
                      reference |-> Reference(BookName(verse.book), verse.chapter,
                                              verse.verse)])
              /\ IF result.raised /= ""
                 THEN /\ pc' = "translate_crashed"
                      /\ UNCHANGED <<live_verses, updated, failed, update_no>>
                 ELSE /\ pc' = pc
                      /\ update_no' = update_no + 1
                      /\ IF IsTruthy(result.value)
                         THEN /\ live_verses' = [live_verses EXCEPT
                                     ![i].referenceTranslation = result.value]
                              /\ updated' = updated + 1
                              /\ failed' = failed
                         ELSE /\ failed' = failed + 1
                              /\ UNCHANGED <<live_verses, updated>>
    /\ UNCHANGED <<loaded_verses, needs_update, saved>>
    /\ UNCHANGED <<normVars, loadVars, lexVars, resolveVars, mergeVars, fetchVars,
                   parseVars, pureVars>>

\* the loop is over: data["verses"] = verses, json.dump
TranslateSave ==
    /\ pc = "translate_fetch"
    /\ update_no > max_updates(needs_update)
    /\ saved' = Saved(live_verses)
    /\ pc' = "translate_saved"
    /\ UNCHANGED <<loaded_verses, live_verses, needs_update, update_no, updated, failed,
                   fetch_log, response>>
    /\ UNCHANGED <<normVars, loadVars, lexVars, resolveVars, mergeVars, fetchVars,
                   parseVars, pureVars>>

NextTranslate == TranslateScan \/ TranslateFetch \/ TranslateSave

SpecTranslate == InitTranslate /\ [][NextTranslate]_vars

\* ---------------------------------------------------------------------
\* fetch_greek_verses.main from the parsing of the csv text on:
\* parse_keyed_features, then the loop over FAMOUS_VERSES
\* ---------------------------------------------------------------------
MaxRows == 2

Column == <<"x">>

\* a csv line of the given fields, tab separated
RECURSIVE TabJoin(_)
TabJoin(fields) ==
    IF fields = <<>> THEN <<>>
    ELSE IF Len(fields) = 1 THEN Head(fields)
    ELSE Head(fields) \o <<"\t">> \o TabJoin(Tail(fields))

\* a line of eleven columns with the reference, TANTT and translation
\* columns as given
Row(ref, tantt, trans) ==
    TabJoin(<<Column, Column, Column, Column, ref, Column, Column, tantt,
              Column, Column, trans>>)

Ref_1_21 == <<"{", "4", "0", "|", "1", "|", "2", "1", "}">>
Ref_3_2  == <<"{", "4", "0", "|", "3", "|", "2", "}">>
Ref_4_4  == <<"{", "4", "0", "|", "4", "|", "4", "}">>

Tantt(word) == <<"{", "K", "=">> \o word \o <<"=", "G", ";", "}">>

Trans(lt) == <<"{", "T", "|", "I", "|">> \o lt \o <<"|", "S", "}">>

HeaderRow == TabJoin([i \in 1..11 |-> <<"h">>])

\* well-formed lines: both fragments, a surface form only (translation
\* '-'), a translation only, neither ('-' inside square brackets), and
\* neither again (no surface form, no literal translation)
RowBoth      == Row(Ref_1_21, Tantt(<<"a">>), Trans(<<"[", "T", "]", " ", "w">>))
RowGreekOnly == Row(Ref_1_21, Tantt(<<"b">>), Trans(<<"-">>))
RowTransOnly == Row(Ref_3_2, <<"{", "K", "}">>, Trans(<<"v">>))
RowNeither   == Row(Ref_4_4, <<"{", "K", "}">>, Trans(<<"[", "-", "]">>))
RowNoLT      == Row(Ref_4_4, Tantt(<<>>), <<"{", "T", "|", "I", "}">>)

\* malformed lines: ten columns, two reference parts, a chapter that is
\* not a number; and a line of white space
RowShort      == TabJoin(<<Column, Column, Column, Column, Ref_1_21, Column, Column,
                           Tantt(<<"a">>), Column, Trans(<<"w">>)>>)
RowTwoParts   == Row(<<"{", "4", "0", "|", "1", "}">>, Tantt(<<"a">>), Trans(<<"w">>))
RowBadChapter == Row(<<"{", "4", "0", "|", "x", "|", "2", "1", "}">>,
                     Tantt(<<"a">>), Trans(<<"w">>))
RowBlank      == <<" ", "\t">>

RowKinds ==
    {RowBoth, RowGreekOnly, RowTransOnly, RowNeither, RowNoLT,
     RowShort, RowTwoParts, RowBadChapter, RowBlank}

RECURSIVE LineJoin(_)
LineJoin(ls) ==
    IF ls = <<>> THEN <<>>
    ELSE IF Len(ls) = 1 THEN Head(ls)
    ELSE Head(ls) \o <<"\n">> \o LineJoin(Tail(ls))

\* the csv texts: a header and up to MaxRows lines, with or without a
\* newline at the end; and texts without a header
CsvTexts ==
    LET bodies == SeqsUpTo(RowKinds, MaxRows)
    IN  {LineJoin(<<HeaderRow>> \o b) : b \in bodies}
            \cup {LineJoin(<<HeaderRow>> \o b) \o <<"\n">> : b \in bodies}
            \cup {LineJoin(b) : b \in bodies}

InitAggregate ==
    /\ pc = "parse"
    /\ rows \in {Lines(t) : t \in CsvTexts}
    /\ row_no = 2
    /\ IdleFetch
    /\ IdleNorm /\ IdleLoad /\ IdleLexicon /\ IdleResolve /\ IdleMerge
    /\ IdleTranslate /\ IdleActive /\ IdleMorph

\* one turn of "for line in lines[1:]"
AggregateRow ==
    /\ pc = "parse"
    /\ row_no <= Len(rows)
    /\ verses' = ProcessRow(verses, rows[row_no])
    /\ row_no' = row_no + 1
    /\ UNCHANGED <<pc, rows, famous_no, output_verses, missing, normVars, loadVars, lexVars,
                   resolveVars, mergeVars, translateVars, pureVars>>

\* "return verses", and main goes on to the famous verses
AggregateReturn ==
    /\ pc = "parse"
    /\ row_no > Len(rows)
    /\ pc' = "fetch"
    /\ UNCHANGED <<parseVars, fetchVars, normVars, loadVars, lexVars, resolveVars, mergeVars,
                   translateVars, pureVars>>

NextAggregate == AggregateRow \/ AggregateReturn \/ FetchEntry \/ FetchMissing \/ FetchSave

SpecAggregate == InitAggregate /\ [][NextAggregate]_vars

\* ---------------------------------------------------------------------
\* The two scripts that make verse records: a run is one of
\* fetch_greek_verses.main or one of merge_verses.main
\* ---------------------------------------------------------------------
InitVerses == InitAggregate \/ InitMerge

NextVerses == NextAggregate \/ NextMerge

SpecVerses == InitVerses /\ [][NextVerses]_vars

\* ---------------------------------------------------------------------
\* get_active_form on the forms of a few stems and endings
\* ---------------------------------------------------------------------
MaxStemLen == 2

Stems == SeqsUpTo({"f", "o", "b", "e"}, MaxStemLen)

Endings ==
    {<<>>, <<"e", "o", "m", "a", "i">>, <<"o", "m", "a", "i">>, <<"m", "a", "i">>,
     <<"a", "i">>, <<"o", "m", "a">>, <<"e", "w">>, <<"m", "i">>}

Forms == {stem \o ending : stem \in Stems, ending \in Endings}

InitActive ==
    /\ pc = "active"
    /\ active_arg \in Forms
    /\ active_form = None
    /\ active_rule = None
    /\ IdleNorm /\ IdleLoad /\ IdleLexicon /\ IdleResolve /\ IdleMerge /\ IdleFetch
    /\ IdleParse /\ IdleTranslate /\ IdleMorph

\* the call get_active_form(middle_form)
ActiveCall ==
    /\ pc = "active"
    /\ active_form' = get_active_form(active_arg)
    /\ active_rule' = ActiveRule(active_arg)
    /\ pc' = "active_done"
    /\ UNCHANGED <<active_arg, morphVars, normVars, loadVars, lexVars, resolveVars, mergeVars,
                   fetchVars, parseVars, translateVars>>

NextActive == ActiveCall

SpecActive == InitActive /\ [][NextActive]_vars

\* ---------------------------------------------------------------------
\* parse_morph on the codes of a few languages, types, second and third
\* components, and on codes that are no codes
\* ---------------------------------------------------------------------
MaxGenderLen == 3

TypeCodes == {<<>>, <<"N">>, <<"v">>, <<"X">>, <<"x", "D">>}

SecondComponents == SeqsUpTo({"M", "f", "S", "P", "x"}, MaxGenderLen)

ThirdComponents == {<<>>, <<"P">>, <<"l">>, <<"T">>, <<"L", "I">>, <<"X">>, <<"P", "L">>}

Codes ==
    {<<>>, <<"-">>, <<"N">>, <<"N", "-", "F">>, <<":">>,
     <<"G", ":", "N", "-", "F", ":", "x">>}
        \cup {<<l, ":">> \o t : l \in {"G", "N"}, t \in TypeCodes}
        \cup {<<l, ":">> \o t \o <<"-">> \o g :
                 l \in {"G", "N"}, t \in TypeCodes, g \in SecondComponents}
        \cup {<<l, ":">> \o t \o <<"-">> \o g \o <<"-">> \o e :
                 l \in {"G", "N"}, t \in TypeCodes, g \in SecondComponents,
                 e \in ThirdComponents}

InitMorph ==
    /\ pc = "morph"
    /\ morph_arg \in Codes
    /\ morph_result = NoMorph
    /\ IdleNorm /\ IdleLoad /\ IdleLexicon /\ IdleResolve /\ IdleMerge /\ IdleFetch
    /\ IdleParse /\ IdleTranslate /\ IdleActive

\* the call parse_morph(morph_code)
MorphCall ==
    /\ pc = "morph"
    /\ morph_result' = parse_morph(morph_arg)
    /\ pc' = "morph_done"
    /\ UNCHANGED <<morph_arg, activeVars, normVars, loadVars, lexVars, resolveVars, mergeVars,
                   fetchVars, parseVars, translateVars>>

NextMorph == MorphCall

SpecMorph == InitMorph /\ [][NextMorph]_vars

\* ---------------------------------------------------------------------
\* add_morphology.main from the loading of the lexicon to the end of the
\* resolution pass: load_tbesg line by line, then the loop over the words
\* ---------------------------------------------------------------------
\* a second entry of the number G3056, with a letter suffix and a form of
\* its own
LineXenosB ==
    <<<<"G", "3", "0", "5", "6", "b">>, <<"x">>, <<"x">>, Xenos,
      <<"x", "e">>, <<"G", ":", "A">>, <<"f", "o", "r", "e", "i", "g", "n">>>>

IndexLines == {LineLogos, LineXenosB, LinePhobeo, LineAutos}

IndexFiles == {<<LineHeader>> \o body : body \in SeqsUpTo(IndexLines, MaxLexEntries)}

IndexWords ==
    {Word(<<"l">>, NoText, Logos),          \* found by its form
     Word(<<"c">>, NoText, Xenos),          \* found by its form, if LineXenosB was read
     Word(<<"f">>, NoText, Phobeomai),      \* found by its derived active form
     Word(<<"l">>, G3056, Logos)}           \* found by its identifier

\* vocabulary.json is read before the lexicon
InitMain ==
    /\ pc = "load"
    /\ lines \in IndexFiles
    /\ line_no = 1
    /\ in_data = FALSE
    /\ IdleLexicon
    /\ vocab \in SeqsUpTo(IndexWords, MaxWords)
    /\ words = vocab
    /\ word_no = 1
    /\ matched_by_strong = 0
    /\ matched_by_greek = 0
    /\ unmatched = <<>>
    /\ found = <<>>
    /\ IdleNorm /\ IdleMerge /\ IdleFetch
    /\ IdleParse /\ IdleTranslate /\ IdleActive /\ IdleMorph

\* load_tbesg has returned: main sets the counters and enters the loop
MainLoaded ==
    /\ pc = "loaded"
    /\ pc' = "resolve"
    /\ matched_by_strong' = 0
    /\ matched_by_greek' = 0
    /\ unmatched' = <<>>
    /\ UNCHANGED <<vocab, words, word_no, found, loadVars, lexVars, normVars, mergeVars,
                   fetchVars, parseVars, translateVars, pureVars>>

NextMain == LoadLine \/ LoadReturn \/ MainLoaded \/ ResolveNext \/ ResolveDone

SpecMain == InitMain /\ [][NextMain]_vars

\* ---------------------------------------------------------------------
\* Texts that are the same up to diacritics
\* ---------------------------------------------------------------------
RemoveAt(s, i) == SubSeq(s, 1, i - 1) \o SubSeq(s, i + 1, Len(s))

InsertAt(s, i, c) == SubSeq(s, 1, i) \o <<c>> \o SubSeq(s, i + 1, Len(s))

\* the same text with one precomposed code point written as base + marks
EncodingVariants(t) ==
    {SubSeq(t, 1, i - 1) \o Decomp(t[i]) \o SubSeq(t, i + 1, Len(t)) :
        i \in {k \in 1..Len(t) : Decomp(t[k]) /= <<t[k]>>}}

\* the same text with one combining mark more or one less
MarkVariants(t) ==
    {RemoveAt(t, i) : i \in {k \in 1..Len(t) : IsMn(t[k])}}
    \cup {InsertAt(t, i, "'") : i \in 0..Len(t)}

\* "(" ... ")" with one or more combining marks and nothing else in between
HasMarksOnlyGroup(t) ==
    \E i \in 1..Len(t) : \E j \in (i + 2)..Len(t) :
        /\ t[i] = "("
        /\ t[j] = ")"
        /\ \A k \in (i + 1)..(j - 1) : IsMn(t[k])

\* C5 (as stated): normalize_greek is idempotent, two texts that differ only
\* in the encoding of a diacritic or in the combining marks they carry have
\* the same key, and the empty or absent text has the empty key.
C5_Original ==
    /\ pc = "norm_done" => norm_twice = norm_key
    /\ (pc /= "norm" /\ text /= None) =>
          \A y \in EncodingVariants(text) \cup MarkVariants(text) :
              normalize_greek(y) = norm_key
    /\ (pc /= "norm" /\ text \in {None, <<>>}) => norm_key = <<>>

\* C5 (amended): as above, but a change of combining marks is only required
\* to keep the key when neither text has a parenthesised segment that
\* consists of combining marks alone: the parenthetical segment is removed
\* before the marks are, so "(" mark ")" disappears while "()" stays.
C5_NormalizeIdempotentAndMarkInvariant ==
    /\ pc = "norm_done" => norm_twice = norm_key
    /\ (pc /= "norm" /\ text /= None) =>
          /\ \A y \in EncodingVariants(text) : normalize_greek(y) = norm_key
          /\ \A y \in MarkVariants(text) :
                (~HasMarksOnlyGroup(text) /\ ~HasMarksOnlyGroup(y))
                    => normalize_greek(y) = norm_key
    /\ (pc /= "norm" /\ text \in {None, <<>>}) => norm_key = <<>>

\* a text with a precomposed capital and a parenthetical has been normalized
\* twice: the parenthetical is gone, the accent is gone, the letter is small
C5_Witness ==
    /\ pc = "norm_done"
    /\ text = <<"A'", "(", "S", ")">>
    /\ norm_key = <<"a">>
    /\ norm_twice = <<"a">>

\* ---------------------------------------------------------------------
\* Claims about load_tbesg (SpecLoad)
\* ---------------------------------------------------------------------
\* line k of the file has been turned into an entry: it comes after the
\* header row and the loop body did not skip it
Indexed(k) ==
    /\ \E h \in 1..(k - 1) : IsHeader(StripLine(lines[h]))
    /\ ~IsHeader(StripLine(lines[k]))
    /\ ~IsSkippedLine(StripLine(lines[k]))

Done == {k \in 1..(line_no - 1) : k <= Len(lines)}

RawId(k) == Strip(StripLine(lines[k])[1])

\* C3: first insertion wins in both indexes: once a key is present in
\* lexicon_by_strong or lexicon_by_greek, no later line changes the entry
\* stored under it.
C3_FirstInsertionWins ==
    [][/\ \A k \in DOMAIN lexicon_by_strong :
            k \in DOMAIN lexicon_by_strong' /\ lexicon_by_strong'[k] = lexicon_by_strong[k]
       /\ \A k \in DOMAIN lexicon_by_greek :
            k \in DOMAIN lexicon_by_greek' /\ lexicon_by_greek'[k] = lexicon_by_greek[k]]_vars

\* two different lines with one canonical id and one normalized form have
\* been indexed, and both indexes hold the entry of the first
C3_Witness ==
    \E i \in Done : \E j \in Done :
        /\ i < j
        /\ Indexed(i) /\ Indexed(j)
        /\ lines[i] = LineLogos /\ lines[j] = LineLogosA
        /\ lexicon_by_strong[G3056].gloss = <<"w", "o", "r", "d">>
        /\ lexicon_by_greek[<<"l", "o", "g", "o", "j">>].gloss = <<"w", "o", "r", "d">>

RECURSIVE StripLetterSuffix(_)
StripLetterSuffix(id) ==
    IF id /= <<>> /\ ~IsDigit(id[Len(id)])
    THEN StripLetterSuffix(SubSeq(id, 1, Len(id) - 1)) ELSE id

RECURSIVE DropLeadingZeros(_)
DropLeadingZeros(ds) ==
    IF Len(ds) > 1 /\ Head(ds) = "0" THEN DropLeadingZeros(Tail(ds)) ELSE ds

\* the identifier without its letter suffix and without its leading zeros
Collapsed(id) == <<"G">> \o DropLeadingZeros(Tail(StripLetterSuffix(id)))

FirstIndexedWith(c) ==
    CHOOSE k \in Done :
        /\ Indexed(k) /\ Collapsed(RawId(k)) = c
        /\ \A j \in Done : (Indexed(j) /\ Collapsed(RawId(j)) = c) => k <= j

\* C4: the canonical id of a line is its identifier with leading zeros
\* dropped and the letter suffix removed, so G0846 and G846 share the
\* canonical id G846; lexicon_by_strong has exactly these canonical ids as
\* keys and holds, for each, the entry of the first line that has it.
C4_CanonicalIdFirstSeen ==
    /\ DOMAIN lexicon_by_strong = {Collapsed(RawId(k)) : k \in {j \in Done : Indexed(j)}}
    /\ \A k \in Done : Indexed(k) =>
          LET c     == Collapsed(RawId(k))
              first == StripLine(lines[FirstIndexedWith(c)])
          IN  /\ c \in DOMAIN lexicon_by_strong
              /\ lexicon_by_strong[c].strong = c
              /\ lexicon_by_strong[c].estrong = Strip(first[1])
              /\ lexicon_by_strong[c].greek = Strip(first[4])
              /\ lexicon_by_strong[c].morph_code = Strip(first[6])
              /\ lexicon_by_strong[c].gloss = Strip(first[7])

\* G0846 then G846 have been read: one key, G846, with the G0846 entry
C4_Witness ==
    /\ pc = "loaded"
    /\ lines = <<LineHeader, LineAutos0, LineAutos>>
    /\ DOMAIN lexicon_by_strong = {<<"G", "8", "4", "6">>}
    /\ lexicon_by_strong[<<"G", "8", "4", "6">>].estrong = <<"G", "0", "8", "4", "6">>

\* ---------------------------------------------------------------------
\* Claims about the resolution pass (SpecResolve)
\* ---------------------------------------------------------------------
\* C1: a word whose surface form is a key of MANUAL_STRONGS is resolved
\* through the manual mapping: its entry is the one lexicon_by_strong holds
\* for the mapped id and its 'strongs' becomes the mapped id, also when its
\* own identifier is a key of lexicon_by_strong for another entry; it never
\* gets the entry or the morphology its own identifier points at.
C1_ManualMappingWins ==
    \A i \in 1..Len(found) :
        LET word   == vocab[i]
            greek  == WordGreek(word)
            target == MANUAL_STRONGS[greek]
            own    == WordStrongs(word)
        IN  greek \in DOMAIN MANUAL_STRONGS =>
              /\ target \in DOMAIN lexicon_by_strong =>
                    /\ found[i].entry = lexicon_by_strong[target]
                    /\ words[i].strongs = target
              /\ (own \in DOMAIN lexicon_by_strong /\ own /= target) =>
                    found[i].entry /= lexicon_by_strong[own]
              /\ words[i].morphology =
                    IF target \in DOMAIN lexicon_by_strong
                       /\ lexicon_by_strong[target].morph /= NoMorph
                    THEN lexicon_by_strong[target].morph
                    ELSE word.morphology

\* a word of the manual mapping whose own identifier is the key of another
\* entry has been resolved, with both entries in the lexicon
C1_Witness ==
    \E i \in 1..Len(found) :
        /\ vocab[i].greek = Deiknumi
        /\ vocab[i].strongs = G3056
        /\ G3056 \in DOMAIN lexicon_by_strong
        /\ G1166 \in DOMAIN lexicon_by_strong
        /\ lexicon_by_strong[G3056].morph /= lexicon_by_strong[G1166].morph
        /\ found[i].via = "manual"
        /\ words[i].strongs = G1166
        /\ words[i].morphology = lexicon_by_strong[G1166].morph

\* the strategy the fixed order selects for a word: the first of manual
\* mapping, exact identifier, normalized form, derived active form that
\* yields an entry
ExpectedVia(word) ==
    LET greek  == WordGreek(word)
        active == get_active_form(greek)
    IN  IF greek \in DOMAIN MANUAL_STRONGS
           /\ MANUAL_STRONGS[greek] \in DOMAIN lexicon_by_strong THEN "manual"
        ELSE IF WordStrongs(word) \in DOMAIN lexicon_by_strong THEN "strong"
        ELSE IF normalize_greek(greek) \in DOMAIN lexicon_by_greek THEN "greek"
        ELSE IF active /= None /\ normalize_greek(active) \in DOMAIN lexicon_by_greek
             THEN "active"
        ELSE "none"

\* C2: every word is resolved by the first strategy, in the order manual
\* mapping, exact identifier, normalized form, derived active form, that
\* yields an entry; a word of the manual mapping whose mapped id is not in
\* lexicon_by_strong is still tried against the later strategies, and a word
\* is unmatched only when no strategy yields an entry.
C2_StrategiesInOrder ==
    \A i \in 1..Len(found) :
        /\ found[i].via = ExpectedVia(vocab[i])
        /\ (found[i].entry = NoEntry) <=> (ExpectedVia(vocab[i]) = "none")

\* ---------------------------------------------------------------------
\* Claims about merge_verses.main
\* ---------------------------------------------------------------------
Merged == pc = "merge_done"

KeyOf(verse) == make_verse_key(normalize_verse(verse))

KeysOf(vs) == {KeyOf(vs[i]) : i \in 1..Len(vs)}

NormalizedAll(vs) == [i \in 1..Len(vs) |-> normalize_verse(vs[i])]

HasKey(K, v) == make_verse_key(v) = K

WithKey(vs, K) == SelectSeq(vs, LAMBDA v : HasKey(K, v))

\* C6 as stated: when an incoming verse has the VerseKey of an existing
\* verse, the existing verse is in the merged output with every field equal
\* to what it was in the existing collection before the merge.
C6_Original ==
    Merged =>
        \A i \in 1..Len(existing_verses) :
            KeyOf(existing_verses[i]) \in KeysOf(new_verses) =>
                \E k \in 1..Len(normalized_existing) :
                    normalized_existing[k] = existing_verses[i]

\* C6 as amended: when an incoming verse has the VerseKey of an existing
\* verse, the incoming verse is discarded and the merged output holds, under
\* that key, exactly the existing verses of that key as normalize_verse
\* returns them (book id mapped, id rebuilt, translation cleaned, absent
\* fields set to their defaults), in their order, and nothing else.
C6_ExistingWinsNormalized ==
    Merged =>
        \A K \in KeysOf(existing_verses) \cap KeysOf(new_verses) :
            WithKey(normalized_existing, K) = WithKey(NormalizedAll(existing_verses), K)

C6_Witness ==
    /\ Merged
    /\ existing_verses = <<VerseMatthew>>
    /\ new_verses = <<VerseMatt>>
    /\ skipped = 1
    /\ normalized_existing = <<normalize_verse(VerseMatthew)>>
    /\ normalized_existing[1] /= VerseMatthew
    /\ normalized_existing[1] /= normalize_verse(VerseMatt)

\* C7: merging a collection into itself adds no verse, counts every
\* incoming verse as a skipped duplicate, and writes as many verses as the
\* existing collection has.
C7_MergeIntoItself ==
    (Merged /\ new_verses = existing_verses) =>
        /\ added = 0
        /\ skipped = Len(new_verses)
        /\ Len(normalized_existing) = Len(existing_verses)

C7_Witness ==
    /\ Merged
    /\ new_verses = existing_verses
    /\ existing_verses = <<VerseMatthew, VerseEnoch>>
    /\ added = 0
    /\ skipped = 2
    /\ Len(normalized_existing) = 2

\* C8: after a merge pass no two verses of the output have the same
\* VerseKey, whatever the existing and the incoming collection hold.
C8_OutputDeduplicated ==
    Merged =>
        \A i, j \in 1..Len(normalized_existing) :
            i /= j => make_verse_key(normalized_existing[i])
                        /= make_verse_key(normalized_existing[j])

IsKnownBook(id) == \E i \in 1..Len(books) : books[i].id = id

\* the book order the claim describes: the position in the books list, and
\* behind every position for a book the list does not name
ClaimedBookOrder(id) ==
    IF IsKnownBook(id)
    THEN CHOOSE i \in 1..Len(books) : books[i].id = id
    ELSE Len(books) + 1

ClaimedKey(v) == <<ClaimedBookOrder(v.book), v.chapter, v.verse>>

\* where the verse at i goes in a stable sort by ClaimedKey
ClaimedRank(vs, i) ==
    1 + Cardinality({j \in 1..Len(vs) : TupleLess(ClaimedKey(vs[j]), ClaimedKey(vs[i]))})
      + Cardinality({j \in 1..(i - 1) : ClaimedKey(vs[j]) = ClaimedKey(vs[i])})

\* C9: the sort puts the merged verses in the order of (position of the
\* book in the books list, chapter, verse); for any books list a verse of a
\* book that is not in the list comes after all verses of known books;
\* verses with equal keys keep their order.
C9_SortedByBookChapterVerse ==
    [][(pc = "merge_new" /\ pc' = "merge_done") =>
        /\ Len(normalized_existing') = Len(normalized_existing)
        /\ \A i \in 1..Len(normalized_existing) :
              normalized_existing'[ClaimedRank(normalized_existing, i)]
                  = normalized_existing[i]]_vars

\* ---------------------------------------------------------------------
\* Claims about the tier of a verse entry
\* ---------------------------------------------------------------------
WordCount(entry) == Len(SplitWords(entry.greek))

HasEntry(n, tier) ==
    \E i \in 1..Len(output_verses) :
        WordCount(output_verses[i]) = n /\ output_verses[i].tier = tier

\* C10: every verse entry has exactly one tier, and it is 1 when the entry
\* has at most 10 words, 2 when it has 11 to 20 words, 3 when it has 21 or
\* more; so 10, 11, 20 and 21 words give the tiers 1, 2, 2 and 3.
C10_TierByWordCount ==
    \A i \in 1..Len(output_verses) :
        LET n    == WordCount(output_verses[i])
            tier == output_verses[i].tier
        IN  /\ tier \in {1, 2, 3}
            /\ n <= 10 => tier = 1
            /\ (11 <= n /\ n <= 20) => tier = 2
            /\ n >= 21 => tier = 3
            /\ n = 10 => tier = 1
            /\ n = 11 => tier = 2
            /\ n = 20 => tier = 2
            /\ n = 21 => tier = 3

C10_Witness ==
    /\ pc = "fetch_done"
    /\ Len(output_verses) = 2
    /\ HasEntry(10, 1)
    /\ HasEntry(21, 3)

\* ---------------------------------------------------------------------
\* Claims about fetch_translations
\* ---------------------------------------------------------------------
Scanned == pc /= "translate"

Flagged(i) == \E k \in 1..Len(needs_update) : needs_update[k] = i

LoadedTranslation(i) == TextOr(loaded_verses[i].referenceTranslation, <<>>)

\* C11: "the word of the Lord." followed by " and then" is classified
\* awkward, "In the beginning was the Word." is not, and the empty
\* translation is; one matching pattern is enough.
C11_AwkwardExamples ==
    Scanned =>
        \A i \in 1..Len(loaded_verses) :
            /\ LoadedTranslation(i) = LordAndThen => Flagged(i)
            /\ LoadedTranslation(i) = InTheBeginning => ~Flagged(i)
            /\ LoadedTranslation(i) = <<>> => Flagged(i)
            /\ LoadedTranslation(i) = HisWord => Flagged(i)

\* the kinds of failure the claims name: transport error, timeout,
\* malformed or undecodable response
FailureKinds ==
    {"HTTPError", "URLError", "TimeoutError", "JSONDecodeError", "UnicodeDecodeError",
     "AttributeError"}

FetchStep == pc = "translate_fetch" /\ Len(fetch_log') = Len(fetch_log) + 1

\* C12: a fetch that fails by a transport error, a timeout or a malformed
\* or undecodable response is counted as failed and the pass goes on to the
\* next flagged verse (and in the end writes the store).
C12_FetchFailureNonFatal ==
    [][(FetchStep /\ response'.kind \in FailureKinds) =>
        /\ failed' = failed + 1
        /\ pc' = "translate_fetch"
        /\ update_no' = update_no + 1]_vars

TimesFetched(i) == Cardinality({k \in 1..Len(fetch_log) : fetch_log[k].verse = i})

FetchFailed(resp) ==
    resp.kind \in FailureKinds \/ ~IsTruthy(fetch_verse_translation(resp).value)

\* C13: every flagged verse is fetched at most once; a fetch that fails
\* adds one to failed and leaves the verse as it was; after the loop
\* updated + failed is the number of fetches attempted.
C13_NoRetries ==
    /\ [](\A i \in 1..Len(loaded_verses) : TimesFetched(i) <= 1)
    /\ [](pc = "translate_saved" => updated + failed = Len(fetch_log))
    /\ [][(FetchStep /\ FetchFailed(response')) =>
            (failed' = failed + 1 /\ live_verses' = live_verses)]_vars

\* C14: only a verse whose translation as loaded is_awkward_translation
\* flags is ever fetched; a verse that is not flagged is never fetched and
\* is in memory and in the written store what it was when loaded; no fetch
\* happens while the verses are classified.
C14_HeuristicGatesFetch ==
    /\ \A k \in 1..Len(fetch_log) :
          is_awkward_translation(LoadedTranslation(fetch_log[k].verse))
    /\ \A i \in 1..Len(loaded_verses) :
          ~is_awkward_translation(LoadedTranslation(i)) =>
              /\ TimesFetched(i) = 0
              /\ live_verses[i] = loaded_verses[i]
              /\ saved.written => saved.verses[i] = loaded_verses[i]
    /\ pc \in {"translate", "translate_returned"} => fetch_log = <<>>
    /\ pc = "translate_fetch" => Len(fetch_log) = update_no - 1

C14_Witness ==
    /\ pc = "translate_saved"
    /\ Len(loaded_verses) = 2
    /\ LoadedTranslation(1) = InTheBeginning
    /\ LoadedTranslation(2) = <<>>
    /\ needs_update = <<2>>
    /\ Len(fetch_log) = 1 /\ fetch_log[1].verse = 2
    /\ updated = 1
    /\ saved.written
    /\ saved.verses[1] = loaded_verses[1]
    /\ saved.verses[2] /= loaded_verses[2]

\* ---------------------------------------------------------------------
\* Aggregation of the keyed features (fetch_greek_verses)
\* ---------------------------------------------------------------------
Fields(line) == Split(line, "\t")

\* a text that reads as a whole number: digits, with at most a sign in
\* front and blanks around
IsNumber(s) ==
    LET body   == RStripChars(LStripChars(s, {" ", "\t"}), {" ", "\t"})
        digits == IF body /= <<>> /\ Head(body) \in {"+", "-"} THEN Tail(body) ELSE body
    IN  digits /= <<>> /\ \A i \in 1..Len(digits) : IsDigit(digits[i])

ReferenceParts(line) == parse_bracket_field(Fields(line)[5])

\* a line with too few columns, too few reference parts, or a book,
\* chapter or verse that is not a number
Malformed(line) ==
    \/ Len(Fields(line)) < 11
    \/ Len(ReferenceParts(line)) < 3
    \/ \E i \in 1..3 : ~IsNumber(ReferenceParts(line)[i])

\* the surface form and the translation a well-formed line carries
RowGreek(line) == extract_greek_word(StripBrackets(Fields(line)[8]))

RowTranslation(line) ==
    LET trans_parts == parse_bracket_field(Fields(line)[11])
    IN  DropSquareBrackets(IF Len(trans_parts) > 2 THEN trans_parts[3] ELSE <<>>)

\* the lines after the header that are well formed
WellFormedOnly(csv_lines) ==
    IF csv_lines = <<>> THEN <<>>
    ELSE <<Head(csv_lines)>> \o SelectSeq(Tail(csv_lines), LAMBDA l : ~Malformed(l))

\* the loop is at a line, and takes it
AtRow == pc = "parse" /\ row_no <= Len(rows)

\* C15: a line with fewer than 11 columns, with fewer than three
\* reference parts, or with a book, chapter or verse that is not a number
\* is skipped: it leaves the verses as they are and the loop goes on to
\* the next line; and the result is the one of the well-formed lines alone,
\* so every well-formed line after a malformed one is still aggregated.
C15_MalformedRowsSkipped ==
    /\ [][AtRow /\ Malformed(rows[row_no])
            => verses' = verses /\ pc' = "parse" /\ row_no' = row_no + 1]_vars
    /\ [](pc = "fetch" /\ famous_no = 1
            => /\ row_no = Len(rows) + 1
               /\ verses = AggregateFrom(<<>>, WellFormedOnly(rows), 2))

\* a malformed line was skipped and a later line was aggregated
C15_Witness ==
    /\ pc = "fetch" /\ Len(rows) >= 3
    /\ Malformed(rows[2])
    /\ ~Malformed(rows[3]) /\ RowGreek(rows[3]) /= <<>>
    /\ \E key \in DOMAIN verses : verses[key].greek_words = <<RowGreek(rows[3])>>

\* what the lines before line n gave to a verse, in the order of the lines
RECURSIVE FragmentsBefore(_, _, _)
FragmentsBefore(Fragment(_), n, key) ==
    IF n <= 2 THEN <<>>
    ELSE LET line == rows[n - 1]
             here == IF Malformed(line) THEN <<>>
                     ELSE IF <<ParseInt(ReferenceParts(line)[1]).value,
                               ParseInt(ReferenceParts(line)[2]).value,
                               ParseInt(ReferenceParts(line)[3]).value>> /= key THEN <<>>
                     ELSE Fragment(line)
         IN  FragmentsBefore(Fragment, n - 1, key) \o here

GreekFragment(line) == IF RowGreek(line) = <<>> THEN <<>> ELSE <<RowGreek(line)>>

TranslationFragment(line) ==
    IF RowTranslation(line) \in {<<>>, <<"-">>} THEN <<>> ELSE <<RowTranslation(line)>>

\* C16: every verse in the result of the aggregation has a surface form
\* or a translation; a line with an empty surface form and an empty or
\* '-' translation makes no bucket; looking a verse up afterwards makes
\* none either; and the fragments of a verse stand in the order of the
\* lines.
C16_NoEmptyBucket ==
    /\ [](\A key \in DOMAIN verses :
            /\ verses[key].greek_words /= <<>> \/ verses[key].translations /= <<>>
            /\ pc = "parse" \/ (pc = "fetch" /\ famous_no = 1)
                 => /\ verses[key].greek_words
                          = FragmentsBefore(GreekFragment, row_no, key)
                    /\ verses[key].translations
                          = FragmentsBefore(TranslationFragment, row_no, key))
    /\ [][AtRow /\ ~Malformed(rows[row_no])
              /\ GreekFragment(rows[row_no]) = <<>>
              /\ TranslationFragment(rows[row_no]) = <<>>
            => verses' = verses]_vars
    /\ [][pc = "fetch" => verses' = verses]_vars

\* a line gave its fragments to its verse, a line without fragments gave
\* no bucket to its own, and that verse was looked up and is still absent
C16_Witness ==
    /\ pc = "fetch_done"
    /\ rows = <<HeaderRow, RowBoth, RowNeither>>
    /\ verses[<<40, 1, 21>>].greek_words = <<<<"a">>>>
    /\ verses[<<40, 1, 21>>].translations = <<<<"T", " ", "w">>>>
    /\ <<40, 4, 4>> \notin DOMAIN verses
    /\ Len(output_verses) = 1 /\ Len(missing) = 2

\* ---------------------------------------------------------------------
\* The id of a verse record
\* ---------------------------------------------------------------------
\* book-chapter-verse, of the fields of the record itself
IdOfFields(v) ==
    v.book \o <<"-">> \o IntToStr(v.chapter) \o <<"-">> \o IntToStr(v.verse)

\* C17: every verse record the aggregation makes (output_verses) and
\* every record the merge makes (normalized_existing) has the id
\* book-chapter-verse of its own book, chapter and verse; an id that was
\* stored with the record does not survive.
C17_IdFromOwnFields ==
    /\ \A i \in 1..Len(output_verses) : output_verses[i].id = IdOfFields(output_verses[i])
    /\ \A i \in 1..Len(normalized_existing) :
           normalized_existing[i].id = IdOfFields(normalized_existing[i])

\* a record stored with the id of the long book name went through the merge
C17_Witness ==
    /\ pc = "merge_done"
    /\ existing_verses = <<VerseMatthew>>
    /\ Len(normalized_existing) >= 1
    /\ normalized_existing[1].book = Matt
    /\ VerseMatthew.id /= IdOfFields(normalized_existing[1])
    /\ normalized_existing[1].id = <<"m", "a", "t", "t", "-", "1", "-", "1">>

\* the aggregation made the record of a famous verse
C17_AggregatedEntry ==
    /\ pc = "fetch_done"
    /\ Len(output_verses) >= 1
    /\ output_verses[1].id = <<"m", "a", "t", "t", "-", "1", "-", "2", "1">>

\* ---------------------------------------------------------------------
\* The derived active form
\* ---------------------------------------------------------------------
Eomai == <<"e", "o", "m", "a", "i">>

Omai == <<"o", "m", "a", "i">>

Mai == <<"m", "a", "i">>

\* the rule and the derived form of a call that has returned
Derived(rule, form) == active_rule = rule /\ active_form = form

\* C18: the rules are tried longest suffix first: a form in 'εομαι' is
\* rewritten by the 'εομαι' rule (to 'εω'), any other form in 'ομαι' by the
\* 'ομαι' rule (to 'ω'), any other form in 'μαι' by the 'μαι' rule (to
\* 'μι'); one rule at most is applied, and a form that matches none has no
\* derived form.
C18_LongestSuffixFirst ==
    pc = "active_done" =>
        IF EndsWith(active_arg, Eomai)
        THEN Derived(Eomai, DropLast(active_arg, 5) \o <<"e", "w">>)
        ELSE IF EndsWith(active_arg, Omai)
        THEN Derived(Omai, DropLast(active_arg, 4) \o <<"w">>)
        ELSE IF EndsWith(active_arg, Mai)
        THEN Derived(Mai, DropLast(active_arg, 3) \o <<"m", "i">>)
        ELSE Derived(None, None)

\* ---------------------------------------------------------------------
\* The decoding of a morphology code
\* ---------------------------------------------------------------------
HasColon(code) == \E i \in 1..Len(code) : code[i] = ":"

\* the components of the part between the first and the second colon
ComponentsOf(code) == Split(Split(code, ":")[2], "-")

HasLetter(component, letter) ==
    \E i \in 1..Len(component) : UpperCode(<<component[i]>>) = <<letter>>

RecognizedCategories == {<<"P">>, <<"L">>, <<"T">>, <<"L", "I">>}

\* C19: parse_morph gives a result for every code: no morphology for an
\* empty code, for '-' and for a code without ':'; otherwise a record in
\* which a type code outside the table is passed on in lower case, the
\* gender is read from the first character of the second component alone,
\* the number is plural when the second component holds a 'P', singular
\* when it holds an 'S' and no 'P', and absent without either, and a third
\* component that is no known category code gives no category.
C19_ParseMorphTotal ==
    pc = "morph_done" =>
        IF morph_arg = <<>> \/ morph_arg = <<"-">> \/ ~HasColon(morph_arg)
        THEN morph_result = NoMorph
        ELSE LET components == ComponentsOf(morph_arg)
                 second     == IF Len(components) > 1 THEN components[2] ELSE <<>>
             IN  /\ DOMAIN morph_result = {"language", "type", "gender", "number", "category"}
                 /\ Join(UpperCode(components[1])) \notin DOMAIN MORPH_TYPE
                        => morph_result.type = Join(LowerCode(components[1]))
                 /\ morph_result.gender =
                        IF second /= <<>> /\ UpperCode(<<second[1]>>)[1] \in DOMAIN GENDER
                        THEN GENDER[UpperCode(<<second[1]>>)[1]] ELSE NoKey
                 /\ morph_result.number =
                        IF HasLetter(second, "P") THEN "plural"
                        ELSE IF HasLetter(second, "S") THEN "singular"
                        ELSE NoKey
                 /\ (Len(components) < 3
                        \/ UpperCode(components[3]) \notin RecognizedCategories)
                        => morph_result.category = NoKey

\* a code of an unknown type whose second component starts with a gender
\* letter and holds both S and P, and whose third component is unknown
C19_Witness ==
    /\ pc = "morph_done"
    /\ morph_arg = <<"G", ":", "x", "D", "-", "M", "S", "P", "-", "X">>
    /\ morph_result = [language |-> "G", type |-> "xd", gender |-> "masculine",
                       number |-> "plural", category |-> NoKey]

\* ---------------------------------------------------------------------
\* The accounting of a resolution pass
\* ---------------------------------------------------------------------
\* the words among the first n for which no entry was found, as the pass
\* reports them
UnmatchedAmong(n) ==
    LET idx == SelectSeq([i \in 1..n |-> i], LAMBDA i : found[i].entry = NoEntry)
    IN  [k \in 1..Len(idx) |-> <<WordStrongs(vocab[idx[k]]), WordGreek(vocab[idx[k]])>>]

\* C20: after any number of words the two match counts and the length of
\* the unmatched list add up to the number of words processed; the
\* unmatched list holds exactly the words for which no entry was found, in
\* their order; and such a word is as it was, identifier and morphology
\* included.
C20_EveryWordAccounted ==
    /\ Len(found) = word_no - 1
    /\ matched_by_strong + matched_by_greek + Len(unmatched) = word_no - 1
    /\ unmatched = UnmatchedAmong(word_no - 1)
    /\ \A i \in 1..(word_no - 1) : found[i].entry = NoEntry => words[i] = vocab[i]

\* a pass of two words is over: the first was found by its derived active
\* form, the second was not found
C20_Witness ==
    /\ pc = "resolved"
    /\ Len(found) = 2
    /\ found[1].via = "active" /\ words[1] /= vocab[1]
    /\ found[2].entry = NoEntry /\ Len(unmatched) = 1
    /\ matched_by_greek = 1 /\ matched_by_strong = 0

\* ---------------------------------------------------------------------
\* The two indexes of the lexicon against each other
\* ---------------------------------------------------------------------
\* the entry stored under a normalized form is the one lexicon_by_strong
\* holds under the canonical id of that entry
SameEntry(form) ==
    LET entry == lexicon_by_greek[form]
    IN  /\ entry.strong \in DOMAIN lexicon_by_strong
        /\ lexicon_by_strong[entry.strong] = entry

\* the words the pass has resolved by a normalized form, their own or the
\* derived active one
ResolvedByForm == {i \in 1..Len(found) : found[i].via \in {"greek", "active"}}

\* C21: after any number of lexicon lines every entry lexicon_by_greek
\* holds is the entry lexicon_by_strong holds under that entry's canonical
\* id; so a word resolved by a normalized form has an identifier and a
\* morphology that are those of one entry of lexicon_by_strong.
C21_IndexesConsistent ==
    /\ \A form \in DOMAIN lexicon_by_greek : SameEntry(form)
    /\ \A i \in ResolvedByForm :
          /\ words[i].strongs \in DOMAIN lexicon_by_strong
          /\ found[i].entry = lexicon_by_strong[words[i].strongs]
          /\ lexicon_by_strong[words[i].strongs].morph /= NoMorph
                => words[i].morphology = lexicon_by_strong[words[i].strongs].morph

\* the failing case: λόγος under G3056, then ξένος under G3056b, and the
\* word ξένος resolved by its form
C21_FailingInput ==
    /\ pc = "resolved"
    /\ lines = <<LineHeader, LineLogos, LineXenosB>>
    /\ vocab = <<Word(<<"c">>, NoText, Xenos)>>
    /\ words[1].strongs = G3056
    /\ words[1].morphology.type = "adjective"
    /\ lexicon_by_strong[G3056].morph.type = "noun"

====
